---------------------------- MODULE Spec2Model ----------------------------
(***************************************************************************)
(* promplot: query Prometheus, plot the result, write it to a file or      *)
(* upload it to Slack.                                                     *)
(*                                                                         *)
(* The module models                                                       *)
(*   - package flags: durationValue.Set (the -range flag) and              *)
(*     unixTime.Set / unixTime.String (the -time flag), as operators on    *)
(*     character sequences;                                                *)
(*   - package main: main() as a sequential process, one action per step   *)
(*     between two calls that leave the process;                           *)
(*   - package promplot: Metrics, Plot and Slack as the steps main takes   *)
(*     through them.                                                       *)
(*                                                                         *)
(* Text is a sequence of one-character strings.  Natural numbers that may  *)
(* exceed 32 bits (nanosecond counts) are sequences of decimal digits,     *)
(* most significant first, without leading zeros (<<>> is zero).           *)
(***************************************************************************)
EXTENDS Integers, Sequences, FiniteSets, TLC

\* one call of durationValue.Set: the text, the value before, the result
VARIABLES dIn, dOld, dRes, dDone

dvars == <<dIn, dOld, dRes, dDone>>

\* unixTime.Set and String: the fields of the literal, the literal, the machine's
\* location, the result of Set, the result of Set on its String, the position
VARIABLES tFields, tIn, tLocal, tRes, tBack, tpc

tvars == <<tFields, tIn, tLocal, tRes, tBack, tpc>>

\* one run of the binary
VARIABLES
    args,        \* the command line and the machine's location
    pc,          \* where main is
    exitCode,    \* the exit status, -1 while the process runs
    stdout,
    stderr,
    calls,
    queryTime,   \* *queryTime and *queryRange after flag.Parse
    queryRange,
    fetched,     \* what the Prometheus client and server answered
    metrics,     \* what Metrics returned
    plot,        \* what Plot returned
    out,         \* the *os.File main writes to
    slackRet,    \* the error promplot.Slack is about to return
    tmpFile,     \* Slack's temp file: "none", "open", "closed", "removed"
    destFile     \* the file at the -file path: "absent", "old", "empty", "partial", "plot"

mvars == <<args, pc, exitCode, stdout, stderr, calls, queryTime, queryRange,
           fetched, metrics, plot, out, slackRet, tmpFile, destFile>>

(***************************************************************************)
(* Characters and digit sequences                                          *)
(***************************************************************************)

DigitChars == <<"0", "1", "2", "3", "4", "5", "6", "7", "8", "9">>

IsDigit(c) == \E i \in 1..10 : DigitChars[i] = c

DigitVal(c) == (CHOOSE i \in 1..10 : DigitChars[i] = c) - 1

CharOf(d) == DigitChars[d + 1]

\* text -> digits and back
ToDigits(s) == [i \in 1..Len(s) |-> DigitVal(s[i])]

ToChars(ds) == [i \in 1..Len(ds) |-> CharOf(ds[i])]

Zeros(n) == [i \in 1..n |-> 0]

RECURSIVE Norm(_)
Norm(ds) == IF ds # <<>> /\ ds[1] = 0 THEN Norm(Tail(ds)) ELSE ds

RECURSIVE AddRec(_, _, _)
AddRec(a, b, c) ==
    IF a = <<>>
    THEN IF c = 0 THEN <<>> ELSE <<c>>
    ELSE LET n == Len(a)
             t == a[n] + b[n] + c
         IN  AddRec(SubSeq(a, 1, n - 1), SubSeq(b, 1, n - 1), t \div 10) \o <<t % 10>>

\* a + b on digit sequences
AddD(a, b) ==
    LET n == IF Len(a) > Len(b) THEN Len(a) ELSE Len(b)
    IN  Norm(AddRec(Zeros(n - Len(a)) \o a, Zeros(n - Len(b)) \o b, 0))

RECURSIVE MulRec(_, _, _)
MulRec(a, m, c) ==
    IF a = <<>>
    THEN IF c = 0 THEN <<>> ELSE IF c >= 10 THEN <<c \div 10, c % 10>> ELSE <<c>>
    ELSE LET n == Len(a)
             t == a[n] * m + c
         IN  MulRec(SubSeq(a, 1, n - 1), m, t \div 10) \o <<t % 10>>

\* a * m for a small natural m (m < 100); leading zeros of a are kept in place
MulSmall(a, m) == MulRec(a, m, 0)

RECURSIVE LexLess(_, _)
LexLess(a, b) ==
    /\ a # <<>>
    /\ \/ a[1] < b[1]
       \/ a[1] = b[1] /\ LexLess(Tail(a), Tail(b))

\* a > b on normalised digit sequences
GtD(a, b) == Len(a) > Len(b) \/ (Len(a) = Len(b) /\ LexLess(b, a))

\* 1<<63 and 1<<63 - 1
TwoTo63 == <<9,2,2,3,3,7,2,0,3,6,8,5,4,7,7,5,8,0,8>>

MaxInt64 == <<9,2,2,3,3,7,2,0,3,6,8,5,4,7,7,5,8,0,7>>

(***************************************************************************)
(* time.ParseDuration, as called by durationValue.Set                      *)
(*                                                                         *)
(* A Duration is an int64 count of nanoseconds: [neg, ns] with ns a digit  *)
(* sequence.                                                               *)
(***************************************************************************)

ZeroDuration == [neg |-> FALSE, ns |-> <<>>]

DurationErr == [err |-> TRUE, d |-> ZeroDuration]

RECURSIVE DigitRun(_)
DigitRun(s) == IF s # <<>> /\ IsDigit(s[1]) THEN 1 + DigitRun(Tail(s)) ELSE 0

\* the unit of a component: everything up to the next '.' or digit
RECURSIVE UnitRun(_)
UnitRun(s) == IF s # <<>> /\ s[1] # "." /\ ~IsDigit(s[1]) THEN 1 + UnitRun(Tail(s)) ELSE 0

\* time.unitMap: each unit is mant * 10^exp nanoseconds
unitMap(u) ==
    CASE u = <<"n", "s">> -> [ok |-> TRUE, mant |-> 1, exp |-> 0]
      [] u = <<"u", "s">> -> [ok |-> TRUE, mant |-> 1, exp |-> 3]
      [] u = <<"m", "s">> -> [ok |-> TRUE, mant |-> 1, exp |-> 6]
      [] u = <<"s">>      -> [ok |-> TRUE, mant |-> 1, exp |-> 9]
      [] u = <<"m">>      -> [ok |-> TRUE, mant |-> 6, exp |-> 10]
      [] u = <<"h">>      -> [ok |-> TRUE, mant |-> 36, exp |-> 11]
      [] OTHER            -> [ok |-> FALSE, mant |-> 0, exp |-> 0]

\* v * unit, in nanoseconds
IntTimesUnit(ip, unit) == Norm(MulSmall(ip, unit.mant) \o Zeros(unit.exp))

\* uint64(float64(f) * (float64(unit) / scale)): the fraction 0.fp of a unit, in
\* whole nanoseconds (truncated)
FracTimesUnit(fp, unit) ==
    LET p == MulSmall(fp, unit.mant)
        k == Len(fp)
    IN  IF unit.exp >= k
        THEN Norm(p \o Zeros(unit.exp - k))
        ELSE Norm(SubSeq(p, 1, Len(p) - (k - unit.exp)))

\* the loop of ParseDuration over the components [0-9]*(\.[0-9]*)?[a-z]+ ; d is
\* the sum so far
RECURSIVE ParseComponents(_, _)
ParseComponents(s, d) ==
    IF s = <<>> THEN [err |-> FALSE, d |-> d]
    ELSE IF ~(s[1] = "." \/ IsDigit(s[1])) THEN [err |-> TRUE, d |-> <<>>]
    ELSE
      LET ni   == DigitRun(s)
          ip   == Norm(ToDigits(SubSeq(s, 1, ni)))
          s1   == SubSeq(s, ni + 1, Len(s))
          dot  == s1 # <<>> /\ s1[1] = "."
          s2   == IF dot THEN Tail(s1) ELSE s1
          nf   == IF dot THEN DigitRun(s2) ELSE 0
          fp   == ToDigits(SubSeq(s2, 1, nf))
          s3   == SubSeq(s2, nf + 1, Len(s2))
          nu   == UnitRun(s3)
          unit == unitMap(SubSeq(s3, 1, nu))
          s4   == SubSeq(s3, nu + 1, Len(s3))
          v    == AddD(IntTimesUnit(ip, unit), FracTimesUnit(fp, unit))
          sum  == AddD(d, v)
      IN  IF \/ GtD(ip, TwoTo63)                      \* leadingInt overflows
             \/ (ni = 0 /\ nf = 0)                    \* no digits
             \/ nu = 0                                \* missing unit
             \/ ~unit.ok                              \* unknown unit
             \/ GtD(IntTimesUnit(ip, unit), TwoTo63)  \* v > 1<<63/unit
             \/ GtD(v, TwoTo63)
             \/ GtD(sum, TwoTo63)
          THEN [err |-> TRUE, d |-> <<>>]
          ELSE ParseComponents(s4, sum)

ParseDuration(s) ==
    LET neg == s # <<>> /\ s[1] = "-"
        s0  == IF s # <<>> /\ s[1] \in {"-", "+"} THEN Tail(s) ELSE s
        r   == ParseComponents(s0, <<>>)
    IN  IF s0 = <<"0">> THEN [err |-> FALSE, d |-> ZeroDuration]
        ELSE IF s0 = <<>> \/ r.err THEN DurationErr
        ELSE IF neg THEN [err |-> FALSE, d |-> [neg |-> r.d # <<>>, ns |-> r.d]]
        ELSE IF GtD(r.d, MaxInt64) THEN DurationErr
        ELSE [err |-> FALSE, d |-> [neg |-> FALSE, ns |-> r.d]]

(***************************************************************************)
(* flags.durationValue                                                     *)
(***************************************************************************)

\* the end (exclusive) of a match of [-+]?[0-9]*(\.[0-9]*)?d that starts at s[i],
\* or 0 when there is none.  Digits, '.' and 'd' are disjoint, so the greedy
\* match is the only one that can succeed at i.
MatchDayAt(s, i) ==
    LET rest(j) == SubSeq(s, j, Len(s))
        j0 == IF s[i] \in {"-", "+"} THEN i + 1 ELSE i
        j1 == j0 + DigitRun(rest(j0))
        j2 == IF j1 <= Len(s) /\ s[j1] = "." THEN j1 + 1 + DigitRun(rest(j1 + 1)) ELSE j1
    IN  IF j2 <= Len(s) /\ s[j2] = "d" THEN j2 + 1 ELSE 0

\* matchDay.FindStringIndex(s): the leftmost match, as [lo, hi) in 1-based
\* positions (s[lo .. hi-1] is the match); found = FALSE is Go's nil
matchDay(s) ==
    LET starts == {i \in 1..Len(s) : MatchDayAt(s, i) # 0}
    IN  IF starts = {} THEN [found |-> FALSE, lo |-> 0, hi |-> 0]
        ELSE LET lo == CHOOSE i \in starts : \A k \in starts : i <= k
             IN  [found |-> TRUE, lo |-> lo, hi |-> MatchDayAt(s, lo)]

\* strconv.ParseFloat on the text before the 'd' of a match: [-+]?[0-9]*(\.[0-9]*)?
\* It fails when the text holds no digit.  The value is an exact decimal ip.fp.
ParseFloat(t) ==
    LET neg == t # <<>> /\ t[1] = "-"
        t0  == IF t # <<>> /\ t[1] \in {"-", "+"} THEN Tail(t) ELSE t
        ni  == DigitRun(t0)
        t1  == SubSeq(t0, ni + 1, Len(t0))
        nf  == IF t1 # <<>> THEN DigitRun(Tail(t1)) ELSE 0
    IN  [err |-> ni = 0 /\ nf = 0,
         neg |-> neg,
         ip  |-> ToDigits(SubSeq(t0, 1, ni)),
         fp  |-> IF t1 # <<>> THEN ToDigits(SubSeq(t1, 2, nf + 1)) ELSE <<>>]

\* digits + 1
Incr(ds) == AddD(ds, <<1>>)

\* strconv.FormatFloat(days*24, 'f', 6, 64): days*24 rounded to six decimals
\* (half to even), written as [-]int.frac6
FormatFloatTimes24(f) ==
    LET k     == Len(f.fp)
        p     == MulSmall(f.ip \o f.fp, 24)             \* k fractional digits
        keep  == IF k <= 6 THEN p \o Zeros(6 - k) ELSE SubSeq(p, 1, Len(p) - (k - 6))
        drop  == IF k <= 6 THEN <<>> ELSE SubSeq(p, Len(p) - (k - 6) + 1, Len(p))
        half  == <<5>> \o Zeros(Len(drop) - 1)
        up    == /\ drop # <<>>
                 /\ \/ LexLess(half, drop)
                    \/ (drop = half /\ keep # <<>> /\ keep[Len(keep)] % 2 = 1)
        r     == Norm(IF up THEN Incr(Norm(keep)) ELSE keep)
        pad   == IF Len(r) < 7 THEN Zeros(7 - Len(r)) \o r ELSE r
        n     == Len(pad)
    IN  (IF f.neg THEN <<"-">> ELSE <<>>)
        \o ToChars(SubSeq(pad, 1, n - 6)) \o <<".">> \o ToChars(SubSeq(pad, n - 5, n))

\* func (d *durationValue) Set(s string) error, on the value old held before:
\* [err, d] is the error returned and the value *d holds afterwards
durationValue_Set(old, s) ==
    LET is   == matchDay(s)
        days == ParseFloat(SubSeq(s, is.lo, is.hi - 2))
        s2   == IF is.found
                THEN SubSeq(s, 1, is.lo - 1) \o SubSeq(s, is.hi, Len(s))
                     \o FormatFloatTimes24(days) \o <<"h">>
                ELSE s
        r    == ParseDuration(s2)
    IN  IF is.found /\ days.err
        THEN [err |-> TRUE, d |-> old]
        ELSE [err |-> r.err, d |-> r.d]

(***************************************************************************)
(* The -range flag on its own: one call of durationValue.Set on a value    *)
(* that holds old (the flag's default, or what an earlier -range left).    *)
(***************************************************************************)

\* longest raw input text, and the most number+unit components of a built one
MaxRawLen == 4

MaxComponents == 2

DurAlphabet == {"0", "1", ".", "h", "d", "b"}

DurNumbers == {<<"1">>, <<"3", "0">>, <<".", "5">>, <<"1", ".", "5">>}

DurUnits == {<<"h">>, <<"m">>, <<"s">>, <<"d">>}

\* the inputs of TestDuration
TestDurationInputs ==
    { <<"1", "h", "3", "0", ".", "5", "m", "3", "s">>,
      <<"1", "h">>,
      <<"1", "h", "2", "h">>,
      <<"3", "0", "m", "1", "h">>,
      <<"1", "d">>,
      <<"0", ".", "5", "0", "d">>,
      <<".", "5", "d">>,
      <<"1", "d", "1", "h">>,
      <<"1", "h", "1", "d">>,
      <<"1", "h", "1", "d", "6", "0", "m">>,
      <<>>,
      <<"b", "l", "a">> }

RawTexts == UNION {[1..n -> DurAlphabet] : n \in 0..MaxRawLen}

DurComponents == {n \o u : n \in DurNumbers, u \in DurUnits}

RECURSIVE Concat(_)
Concat(ss) == IF ss = <<>> THEN <<>> ELSE Head(ss) \o Concat(Tail(ss))

ComponentTexts == {Concat(cs) : cs \in UNION {[1..n -> DurComponents] : n \in 1..MaxComponents}}

DurationInputs == RawTexts \cup ComponentTexts \cup TestDurationInputs

OneHour == [neg |-> FALSE, ns |-> <<3, 6>> \o Zeros(11)]

InitDuration ==
    /\ dIn \in DurationInputs
    /\ dOld \in {ZeroDuration, OneHour}
    /\ dRes = [err |-> FALSE, d |-> dOld]
    /\ dDone = FALSE

SetRange ==
    /\ ~dDone
    /\ dRes' = durationValue_Set(dOld, dIn)
    /\ dDone' = TRUE
    /\ UNCHANGED <<dIn, dOld>>
    /\ UNCHANGED <<tvars, mvars>>

(***************************************************************************)
(* time.Time, time.Parse and Time.Format with the layout time.UnixDate     *)
(* ("Mon Jan _2 15:04:05 MST 2006"), as called by unixTime.Set and         *)
(* unixTime.String.                                                        *)
(*                                                                         *)
(* A Time is an instant (sec since the Unix epoch, nsec) and a location:   *)
(* UTC, the machine's local location, or a fabricated zone of offset zero  *)
(* that only carries the abbreviation it was parsed with.  zero marks      *)
(* Time{}.  The machine's location (TZ) is a parameter of both functions:  *)
(* a location is its table of zones, and the zone in effect at an instant. *)
(* Years are those of the 32-bit Unix range, 1970..2037.                   *)
(***************************************************************************)

UTCLoc == [kind |-> "utc", name |-> <<"U", "T", "C">>, offset |-> 0]

LocalLoc == [kind |-> "local", name |-> <<>>, offset |-> 0]

ZeroTime == [zero |-> TRUE, sec |-> 0, nsec |-> 0, loc |-> UTCLoc]

LocalZones == {"UTC", "Europe/Berlin", "America/Phoenix"}

\* the zones of a location
ZoneTable(local) ==
    CASE local = "UTC" -> {[name |-> <<"U", "T", "C">>, offset |-> 0]}
      [] local = "Europe/Berlin" ->
             {[name |-> <<"C", "E", "T">>, offset |-> 3600],
              [name |-> <<"C", "E", "S", "T">>, offset |-> 7200]}
      [] local = "America/Phoenix" -> {[name |-> <<"M", "S", "T">>, offset |-> -25200]}

\* Location.lookup: the zone in effect at an instant.  Berlin is on CEST from
\* 2017-03-26 01:00 UTC to 2017-10-29 01:00 UTC (the transitions of 2017).
ZoneAt(local, sec) ==
    CASE local = "UTC" -> [name |-> <<"U", "T", "C">>, offset |-> 0]
      [] local = "Europe/Berlin" ->
             IF 1490490000 <= sec /\ sec < 1509238800
             THEN [name |-> <<"C", "E", "S", "T">>, offset |-> 7200]
             ELSE [name |-> <<"C", "E", "T">>, offset |-> 3600]
      [] local = "America/Phoenix" -> [name |-> <<"M", "S", "T">>, offset |-> -25200]

\* Location.lookupName: a zone of that name in effect at the wall-clock time
\* unix, else any zone of that name
lookupName(local, name, unix) ==
    LET named  == {z \in ZoneTable(local) : z.name = name}
        active == {z \in named : ZoneAt(local, unix - z.offset).name = name}
    IN  IF named = {} THEN [ok |-> FALSE, offset |-> 0]
        ELSE [ok |-> TRUE,
              offset |-> (CHOOSE z \in (IF active # {} THEN active ELSE named) : TRUE).offset]

IsLeap(y) == (y % 4 = 0 /\ y % 100 # 0) \/ y % 400 = 0

daysIn(m, y) ==
    IF m = 2 /\ IsLeap(y) THEN 29
    ELSE <<31, 28, 31, 30, 31, 30, 31, 31, 30, 31, 30, 31>>[m]

\* days from 1970-01-01 to y-m-d
DaysSinceEpoch(y, m, d) ==
    365 * (y - 1970)
    + ((y - 1) \div 4 - (y - 1) \div 100 + (y - 1) \div 400) - 477
    + <<0, 31, 59, 90, 120, 151, 181, 212, 243, 273, 304, 334>>[m]
    + (IF m > 2 /\ IsLeap(y) THEN 1 ELSE 0)
    + d - 1

\* time.Date(y, m, d, hh, mm, ss, 0, UTC).Unix()
DateUnix(y, m, d, hh, mm, ss) == DaysSinceEpoch(y, m, d) * 86400 + hh * 3600 + mm * 60 + ss

\* the calendar fields of a wall-clock second count (Time.date, Time.clock, Weekday)
Civil(wall) ==
    LET days == wall \div 86400
        rem  == wall % 86400
        y    == CHOOSE yy \in 1970..2037 :
                    DaysSinceEpoch(yy, 1, 1) <= days /\ days < DaysSinceEpoch(yy + 1, 1, 1)
        m    == CHOOSE mm \in 1..12 :
                    /\ DaysSinceEpoch(y, mm, 1) <= days
                    /\ days < DaysSinceEpoch(y, mm, 1) + daysIn(mm, y)
    IN  [year |-> y, month |-> m, day |-> days - DaysSinceEpoch(y, m, 1) + 1,
         hour |-> rem \div 3600, min |-> (rem % 3600) \div 60, sec |-> rem % 60,
         weekday |-> (days + 4) % 7]

shortDayNames ==
    <<<<"S", "u", "n">>, <<"M", "o", "n">>, <<"T", "u", "e">>, <<"W", "e", "d">>,
      <<"T", "h", "u">>, <<"F", "r", "i">>, <<"S", "a", "t">>>>

shortMonthNames ==
    <<<<"J", "a", "n">>, <<"F", "e", "b">>, <<"M", "a", "r">>, <<"A", "p", "r">>,
      <<"M", "a", "y">>, <<"J", "u", "n">>, <<"J", "u", "l">>, <<"A", "u", "g">>,
      <<"S", "e", "p">>, <<"O", "c", "t">>, <<"N", "o", "v">>, <<"D", "e", "c">>>>

HasPrefix(s, p) == Len(s) >= Len(p) /\ SubSeq(s, 1, Len(p)) = p

Drop(s, n) == SubSeq(s, n + 1, Len(s))

\* time.lookup: the index of the name of tab that val starts with (names are
\* compared as date(1) writes them), and the rest of val
lookup(tab, val) ==
    LET hits == {i \in 1..Len(tab) : HasPrefix(val, tab[i])}
    IN  IF hits = {} THEN [err |-> TRUE, n |-> 0, rest |-> <<>>]
        ELSE LET i == CHOOSE k \in hits : TRUE
             IN  [err |-> FALSE, n |-> i, rest |-> Drop(val, Len(tab[i]))]

RECURSIVE cutspace(_)
cutspace(s) == IF s # <<>> /\ s[1] = " " THEN cutspace(Tail(s)) ELSE s

\* time.skip(value, " "): a run of spaces, or the end of the value
SkipSpace(v) == [err |-> v # <<>> /\ v[1] # " ", rest |-> cutspace(v)]

\* time.skip(value, c) for a literal c that is no space
SkipChar(v, c) ==
    IF v = <<>> \/ v[1] # c THEN [err |-> TRUE, rest |-> <<>>]
    ELSE [err |-> FALSE, rest |-> Tail(v)]

\* time.getnum: one or two digits, exactly two when fixed
getnum(s, fixed) ==
    IF s = <<>> \/ ~IsDigit(s[1]) THEN [err |-> TRUE, n |-> 0, rest |-> <<>>]
    ELSE IF Len(s) < 2 \/ ~IsDigit(s[2])
         THEN IF fixed THEN [err |-> TRUE, n |-> 0, rest |-> <<>>]
              ELSE [err |-> FALSE, n |-> DigitVal(s[1]), rest |-> Tail(s)]
    ELSE [err |-> FALSE, n |-> 10 * DigitVal(s[1]) + DigitVal(s[2]), rest |-> Drop(s, 2)]

Upper ==
    {"A", "B", "C", "D", "E", "F", "G", "H", "I", "J", "K", "L", "M",
     "N", "O", "P", "Q", "R", "S", "T", "U", "V", "W", "X", "Y", "Z"}

RECURSIVE UpperRun(_)
UpperRun(s) == IF s # <<>> /\ s[1] \in Upper THEN 1 + UpperRun(Tail(s)) ELSE 0

\* digits of at most nine places -> Int
RECURSIVE DigitsToInt(_)
DigitsToInt(ds) ==
    IF ds = <<>> THEN 0 ELSE 10 * DigitsToInt(SubSeq(ds, 1, Len(ds) - 1)) + ds[Len(ds)]

\* time.parseGMT: the length of "GMT" and of a signed hour offset -23..+23 after it
parseGMT(value) ==
    LET v  == Drop(value, 3)
        n  == IF Len(v) >= 2 THEN DigitRun(Tail(v)) ELSE 0
        x  == DigitsToInt(ToDigits(SubSeq(v, 2, IF n > 3 THEN 4 ELSE n + 1)))
    IN  IF v = <<>> \/ v[1] \notin {"-", "+"} \/ n = 0 \/ n > 3 \/ x > 23
        THEN 3
        ELSE 3 + 1 + n

\* time.parseTimeZone: the length of the zone abbreviation value starts with, 0
\* when there is none
parseTimeZone(value) ==
    LET nUpper == UpperRun(value)
    IN  IF Len(value) < 3 THEN 0
        ELSE IF HasPrefix(value, <<"C", "h", "S", "T">>) \/ HasPrefix(value, <<"M", "e", "S", "T">>)
             THEN 4
        ELSE IF HasPrefix(value, <<"G", "M", "T">>) THEN parseGMT(value)
        ELSE IF nUpper = 3 THEN 3
        ELSE IF nUpper = 4 /\ (value[4] = "T" \/ HasPrefix(value, <<"W", "I", "T", "A">>)) THEN 4
        ELSE IF nUpper = 5 /\ value[5] = "T" THEN 5
        ELSE 0

\* the fractional second Parse accepts after the seconds field although the
\* layout has none: '.' and a maximal run of digits, read to nanoseconds
FracSecond(value) ==
    LET n  == DigitRun(Tail(value))
        ds == ToDigits(SubSeq(value, 2, IF n > 9 THEN 10 ELSE n + 1))
    IN  IF Len(value) >= 2 /\ value[1] = "." /\ IsDigit(value[2])
        THEN [nsec |-> DigitsToInt(ds \o Zeros(9 - Len(ds))), rest |-> Drop(value, n + 1)]
        ELSE [nsec |-> 0, rest |-> value]

\* the stdTZ field: "UTC", or an abbreviation
ParseZone(value) ==
    LET n == parseTimeZone(value)
    IN  IF HasPrefix(value, <<"U", "T", "C">>)
        THEN [err |-> FALSE, utc |-> TRUE, name |-> <<"U", "T", "C">>, rest |-> Drop(value, 3)]
        ELSE IF n = 0 THEN [err |-> TRUE, utc |-> FALSE, name |-> <<>>, rest |-> <<>>]
        ELSE [err |-> FALSE, utc |-> FALSE, name |-> SubSeq(value, 1, n), rest |-> Drop(value, n)]

\* the stdLongYear field: four characters, all digits
ParseYear(value) ==
    IF Len(value) < 4 \/ \E i \in 1..4 : ~IsDigit(value[i])
    THEN [err |-> TRUE, n |-> 0, rest |-> <<>>]
    ELSE [err |-> FALSE, n |-> DigitsToInt(ToDigits(SubSeq(value, 1, 4))), rest |-> Drop(value, 4)]

\* the offset Parse gives a fabricated zone: that of GMT+N, else zero
FakeOffset(name) ==
    IF Len(name) > 3 /\ HasPrefix(name, <<"G", "M", "T">>)
    THEN (IF name[4] = "-" THEN -3600 ELSE 3600) * DigitsToInt(ToDigits(Drop(name, 4)))
    ELSE 0

\* time.Parse(time.UnixDate, s) on a machine whose location is local
Parse(local, s) ==
    LET wd  == lookup(shortDayNames, s)
        sp1 == SkipSpace(wd.rest)
        mo  == lookup(shortMonthNames, sp1.rest)
        sp2 == SkipSpace(mo.rest)
        v3  == IF sp2.rest # <<>> /\ sp2.rest[1] = " " THEN Tail(sp2.rest) ELSE sp2.rest
        dy  == getnum(v3, FALSE)
        sp3 == SkipSpace(dy.rest)
        hr  == getnum(sp3.rest, FALSE)
        c1  == SkipChar(hr.rest, ":")
        mi  == getnum(c1.rest, TRUE)
        c2  == SkipChar(mi.rest, ":")
        se  == getnum(c2.rest, TRUE)
        fr  == FracSecond(se.rest)
        sp4 == SkipSpace(fr.rest)
        zn  == ParseZone(sp4.rest)
        sp5 == SkipSpace(zn.rest)
        yr  == ParseYear(sp5.rest)
        bad == \/ wd.err \/ sp1.err \/ mo.err \/ sp2.err \/ dy.err \/ sp3.err
               \/ hr.err \/ hr.n >= 24
               \/ c1.err \/ mi.err \/ mi.n >= 60
               \/ c2.err \/ se.err \/ se.n >= 60
               \/ sp4.err \/ zn.err \/ sp5.err \/ yr.err
               \/ yr.rest # <<>>                           \* extra text
               \/ dy.n < 1 \/ dy.n > daysIn(mo.n, yr.n)    \* day out of range
        unix == DateUnix(yr.n, mo.n, dy.n, hr.n, mi.n, se.n)
        off  == lookupName(local, zn.name, unix)
    IN  IF bad THEN [err |-> TRUE, t |-> ZeroTime]
        ELSE IF zn.utc
             THEN [err |-> FALSE,
                   t |-> [zero |-> FALSE, sec |-> unix, nsec |-> fr.nsec, loc |-> UTCLoc]]
        ELSE IF off.ok
             THEN [err |-> FALSE,
                   t |-> [zero |-> FALSE, sec |-> unix - off.offset, nsec |-> fr.nsec,
                          loc |-> LocalLoc]]
        ELSE [err |-> FALSE,
              t |-> [zero |-> FALSE, sec |-> unix, nsec |-> fr.nsec,
                     loc |-> [kind |-> "fixed", name |-> zn.name, offset |-> FakeOffset(zn.name)]]]

Pad2(n) == <<CharOf(n \div 10), CharOf(n % 10)>>

Pad2Space(n) == IF n < 10 THEN <<" ", CharOf(n)>> ELSE Pad2(n)

Year4(y) == <<CharOf(y \div 1000), CharOf((y \div 100) % 10), CharOf((y \div 10) % 10), CharOf(y % 10)>>

\* t.Format(time.UnixDate) on a machine whose location is local
Format(local, t) ==
    LET z == CASE t.loc.kind = "utc"   -> [name |-> <<"U", "T", "C">>, offset |-> 0]
               [] t.loc.kind = "local" -> ZoneAt(local, t.sec)
               [] t.loc.kind = "fixed" -> [name |-> t.loc.name, offset |-> t.loc.offset]
        c == Civil(t.sec + z.offset)
    IN  IF t.zero
        THEN <<"M", "o", "n", " ", "J", "a", "n", " ", " ", "1", " ",
               "0", "0", ":", "0", "0", ":", "0", "0", " ", "U", "T", "C", " ",
               "0", "0", "0", "1">>
        ELSE shortDayNames[c.weekday + 1] \o <<" ">> \o shortMonthNames[c.month] \o <<" ">>
             \o Pad2Space(c.day) \o <<" ">>
             \o Pad2(c.hour) \o <<":">> \o Pad2(c.min) \o <<":">> \o Pad2(c.sec) \o <<" ">>
             \o z.name \o <<" ">> \o Year4(c.year)

(***************************************************************************)
(* flags.unixTime                                                          *)
(***************************************************************************)

\* func (t *unixTime) String() string
unixTime_String(local, t) == Format(local, t)

\* A Set that swallows the error of Parse: it rejects nothing.
unixTime_Set_NoError(local, s) ==
    LET r == Parse(local, s)
    IN  [err |-> FALSE, t |-> r.t]

\* func (t *unixTime) Set(s string) error: [err, t] is the error returned and the
\* value *t holds afterwards (Parse returns Time{} with an error)
unixTime_Set(local, s) ==
    LET r == Parse(local, s)
    IN  [err |-> r.err, t |-> r.t]

(***************************************************************************)
(* The -time flag on its own: Set on a literal, then String and Set again. *)
(* A literal is built from one token per field of the Unix date format,    *)
(* joined by single spaces; an empty token leaves the field out.           *)
(***************************************************************************)

WeekdayTokens == {<<>>, <<"M", "o", "n">>, <<"T", "u", "e">>}

MonthTokens == {<<>>, <<"F", "e", "b">>, <<"J", "u", "l">>}

\* " 4" is the day as date(1) pads it
DayTokens == {<<>>, <<"4">>, <<" ", "4">>, <<"0", "4">>, <<"2", "9">>}

TimeTokens ==
    {<<>>,
     <<"1", "0", ":", "0", "8", ":", "0", "5">>,
     <<"1", "0", ":", "8", ":", "0", "5">>,
     <<"1", "0", ":", "0", "8", ":", "5">>,
     <<"1", "0", ":", "0", "8", ":", "0", "0", "5">>,
     <<"9", ":", "0", "8", ":", "0", "5">>,
     <<"1", "0", ":", "0", "8", ":", "0", "5", ".", "5">>}

ZoneTokens == {<<>>, <<"U", "T", "C">>, <<"C", "E", "T">>, <<"C", "E", "S", "T">>, <<"M", "S", "T">>}

YearTokens == {<<>>, <<"2", "0", "1", "7">>}

LiteralFields ==
    [wd : WeekdayTokens, mo : MonthTokens, dy : DayTokens, tm : TimeTokens,
     zn : ZoneTokens, yr : YearTokens]

RECURSIVE Join(_)
Join(toks) ==
    IF toks = <<>> THEN <<>>
    ELSE IF Head(toks) = <<>> THEN Join(Tail(toks))
    ELSE LET rest == Join(Tail(toks))
         IN  IF rest = <<>> THEN Head(toks) ELSE Head(toks) \o <<" ">> \o rest

Literal(f) == Join(<<f.wd, f.mo, f.dy, f.tm, f.zn, f.yr>>)

NoTime == [err |-> FALSE, t |-> ZeroTime]

InitTime ==
    /\ tFields \in LiteralFields
    /\ tIn = Literal(tFields)
    /\ tLocal \in LocalZones
    /\ tRes = NoTime
    /\ tBack = NoTime
    /\ tpc = "start"

\* u.Set(text)
SetTime ==
    /\ tpc = "start"
    /\ tRes' = unixTime_Set(tLocal, tIn)
    /\ tpc' = "set"
    /\ UNCHANGED <<tFields, tIn, tLocal, tBack>>
    /\ UNCHANGED <<dvars, mvars>>

\* v.Set(u.String()) for the value u an accepted literal left
SetTimeAgain ==
    /\ tpc = "set"
    /\ ~tRes.err
    /\ tBack' = unixTime_Set(tLocal, unixTime_String(tLocal, tRes.t))
    /\ tpc' = "back"
    /\ UNCHANGED <<tFields, tIn, tLocal, tRes>>
    /\ UNCHANGED <<dvars, mvars>>

(***************************************************************************)
(* package main and package promplot: one run of the binary.               *)
(*                                                                         *)
(* Output text is a sequence of lines, a line a sequence of words; an      *)
(* error is the words of its message, nil is <<>>.  calls is the sequence  *)
(* of calls that left the process (network and file system), in order.     *)
(***************************************************************************)

\* main's plot variable before Plot has returned one
NoPlot == [title |-> "", lines |-> <<>>, legend |-> <<>>, format |-> ""]

\* no answer yet
NotFetched == [kind |-> "none", value |-> <<>>]

nil == <<>>

\* fmt.Errorf(msg + ": %v", err)
Errorf(msg, err) == msg \o <<":">> \o err

\* Number of data points for the plot
step == 100

NotGiven == [given |-> FALSE, text |-> <<>>]

Given(s) == [given |-> TRUE, text |-> s]

RangeArgs ==
    {NotGiven, Given(<<"2", "4", "h">>), Given(<<"7", "d">>), Given(<<"0", "s">>),
     Given(<<"-", "1", "h">>), Given(<<"2", ".", "5", "s">>), Given(<<"1", "d", "1", "d">>),
     Given(<<"9", "9", "n", "s">>), Given(<<"b", "l", "a">>)}

TimeArgs ==
    {NotGiven,
     Given(<<"S", "a", "t", " ", "F", "e", "b", " ", " ", "4", " ", "1", "0", ":", "0", "8", ":", "0", "5", " ", "C", "E", "T", " ", "2", "0", "1", "7">>),
     Given(<<"F", "e", "b", " ", "4", " ", "1", "0", ":", "0", "8", ":", "0", "5", " ", "C", "E", "T", " ", "2", "0", "1", "7">>)}

\* time.Now() of the run
Now == [zero |-> FALSE, sec |-> 1500000000, nsec |-> 123456789, loc |-> LocalLoc]

\* the samples of a series: a timestamp (model.Time, milliseconds) and the
\* text SampleValue.String() gives for the value
Series1 ==
    [metric |-> <<"u", "p", "{", "j", "o", "b", "=", "a", "}">>,
     values |-> <<[t |-> 1000, v |-> <<"1">>], [t |-> 1500, v |-> <<"0", ".", "5">>],
                  [t |-> 2000, v |-> <<"2">>]>>]

Series2 ==
    [metric |-> <<"u", "p">>,
     values |-> <<[t |-> 1000, v |-> <<"N", "a", "N">>]>>]

Series3 ==
    [metric |-> <<"u", "p", "{", "j", "o", "b", "=", "b", "}">>,
     values |-> <<[t |-> 1000, v |-> <<"0">>], [t |-> 2000, v |-> <<"1">>]>>]

Series4 ==
    [metric |-> <<"u", "p">>,
     values |-> <<[t |-> 1000, v |-> <<"1">>], [t |-> 1999, v |-> <<"1">>]>>]

\* a label value that holds a closing brace: up{a="}"}
Series5 ==
    [metric |-> <<"u", "p", "{", "a", "=", "\"", "}", "\"", "}">>,
     values |-> <<[t |-> 1000, v |-> <<"3">>]>>]

\* a series without samples
Series0 == [metric |-> <<"u", "p">>, values |-> <<>>]

\* more series than the palette has colors
NineSeries == [s \in 1..9 |-> IF s % 2 = 1 THEN Series3 ELSE Series4]

\* as many series as the palette has colors
EightSeries == SubSeq(NineSeries, 1, 8)

Matrices ==
    {<<>>, <<Series1>>, <<Series4>>, <<Series1, Series2>>, <<Series3, Series1>>,
     <<Series1, Series4>>, <<Series5, Series4>>, <<Series0, Series1>>, EightSeries,
     NineSeries}

Formats == {"png", "bmp"}

CommandLines ==
    [version : BOOLEAN, silent : BOOLEAN, url : {"", "http://prom"}, query : {"", "up"},
     time : TimeArgs, range : RangeArgs, title : {"Prometheus metrics"}, format : Formats,
     file : {"", "-", "plot.png"}, slack : {"", "token"}, channel : {"", "stats"},
     tz : {"UTC", "Europe/Berlin"}]

Init ==
    /\ args \in CommandLines
    /\ pc = "start"
    /\ exitCode = -1
    /\ stdout = <<>>
    /\ stderr = <<>>
    /\ calls = <<>>
    /\ queryTime = Now
    /\ queryRange = ZeroDuration
    /\ fetched = NotFetched
    /\ metrics = <<>>
    /\ plot = NoPlot
    /\ out = "none"
    /\ slackRet = nil
    /\ tmpFile = "none"
    /\ destFile \in {"absent", "old"}

\* An exit that always reports success.
Exit_Success(code) == pc' = "exit" /\ exitCode' = 0

\* os.Exit(code)
Exit(code) == pc' = "exit" /\ exitCode' = code

\* A log helper that does not look at -silent.
log_Always(line) == <<line>>

\* the log helper of main: a line on stderr unless -silent
log(line) == IF args.silent THEN <<>> ELSE <<line>>

\* func fatal(err error, msg string): the line it prints
fatal(err, msg) == <<"msg", ":">> \o err

\* flag.Parse(): the Set of each flag given.  A Set that fails makes the flag
\* package print the error and the usage and exit with status 2.
FlagParse ==
    /\ pc = "start"
    /\ \E tr \in {IF args.time.given THEN unixTime_Set(args.tz, args.time.text)
                  ELSE [err |-> FALSE, t |-> Now]},
          dr \in {IF args.range.given THEN durationValue_Set(ZeroDuration, args.range.text)
                  ELSE [err |-> FALSE, d |-> ZeroDuration]} :
         LET bad == (IF tr.err THEN {"-time"} ELSE {}) \cup (IF dr.err THEN {"-range"} ELSE {})
         IN  IF bad # {}
             THEN /\ \E f \in bad :
                       stderr' = stderr \o <<<<"invalid", "value", "for", "flag", f>>, <<"Usage">>>>
                  /\ Exit(2)
                  /\ UNCHANGED <<queryTime, queryRange>>
             ELSE /\ queryTime' = tr.t
                  /\ queryRange' = dr.d
                  /\ pc' = "version"
                  /\ UNCHANGED <<exitCode, stderr>>
    /\ UNCHANGED <<args, stdout, calls, metrics, plot, out, slackRet, tmpFile, destFile>>
    /\ UNCHANGED <<dvars, tvars, fetched>>

\* A main that does not look at -version.
CheckVersion_Ignored ==
    /\ pc = "version"
    /\ pc' = "validate"
    /\ UNCHANGED <<stdout, exitCode>>
    /\ UNCHANGED <<args, stderr, calls, queryTime, queryRange, metrics, plot, out, slackRet,
                   tmpFile, destFile>>
    /\ UNCHANGED <<dvars, tvars, fetched>>

\* if *versionFlag { fmt.Printf(...); os.Exit(0) }
CheckVersion ==
    /\ pc = "version"
    /\ IF args.version
       THEN /\ stdout' = Append(stdout, <<"promplot", "version">>)
            /\ Exit(0)
       ELSE /\ pc' = "validate"
            /\ UNCHANGED <<stdout, exitCode>>
    /\ UNCHANGED <<args, stderr, calls, queryTime, queryRange, metrics, plot, out, slackRet,
                   tmpFile, destFile>>
    /\ UNCHANGED <<dvars, tvars, fetched>>

\* Variants of the validation with one check left out: the properties of the
\* validation below do not hold of them.
RequiredFlagErrs_NoConflict ==
    (IF args.url = "" THEN <<<<"missing", "flag", ":", "-url">>>> ELSE <<>>)
    \o (IF args.query = "" THEN <<<<"missing", "flag", ":", "-query">>>> ELSE <<>>)
    \o (IF queryRange.ns = <<>> THEN <<<<"missing", "flag", ":", "-range">>>> ELSE <<>>)
    \o (IF args.file = "" /\ args.slack = ""
        THEN <<<<"one", "of", "-file", "or", "-slack", "must", "be", "set">>>>
        ELSE IF args.slack # "" /\ args.channel = "" /\ args.file = ""
        THEN <<<<"missing", "flag", ":", "-channel">>>>
        ELSE <<>>)

RequiredFlagErrs_NoURL ==
    (IF args.query = "" THEN <<<<"missing", "flag", ":", "-query">>>> ELSE <<>>)
    \o (IF queryRange.ns = <<>> THEN <<<<"missing", "flag", ":", "-range">>>> ELSE <<>>)
    \o (IF args.file = "" /\ args.slack = ""
        THEN <<<<"one", "of", "-file", "or", "-slack", "must", "be", "set">>>>
        ELSE IF args.file # "" /\ args.slack # ""
        THEN <<<<"only", "one", "of", "-file", "or", "-slack", "can", "be", "set">>>>
        ELSE IF args.slack # "" /\ args.channel = ""
        THEN <<<<"missing", "flag", ":", "-channel">>>>
        ELSE <<>>)

\* the errs of "Required flags"
RequiredFlagErrs ==
    (IF args.url = "" THEN <<<<"missing", "flag", ":", "-url">>>> ELSE <<>>)
    \o (IF args.query = "" THEN <<<<"missing", "flag", ":", "-query">>>> ELSE <<>>)
    \o (IF queryRange.ns = <<>> THEN <<<<"missing", "flag", ":", "-range">>>> ELSE <<>>)
    \o (IF args.file = "" /\ args.slack = ""
        THEN <<<<"one", "of", "-file", "or", "-slack", "must", "be", "set">>>>
        ELSE IF args.file # "" /\ args.slack # ""
        THEN <<<<"only", "one", "of", "-file", "or", "-slack", "can", "be", "set">>>>
        ELSE IF args.slack # "" /\ args.channel = ""
        THEN <<<<"missing", "flag", ":", "-channel">>>>
        ELSE <<>>)

\* A validation that reports on standard output.
Validate_ToStdout ==
    /\ pc = "validate"
    /\ IF RequiredFlagErrs # <<>>
       THEN /\ stdout' = stdout \o RequiredFlagErrs \o <<<<"For", "more", "info", "see", "-h">>>>
            /\ Exit(1)
       ELSE /\ pc' = "fetch"
            /\ UNCHANGED <<stdout, exitCode>>
    /\ UNCHANGED <<args, stderr, calls, queryTime, queryRange, metrics, plot, out, slackRet,
                   tmpFile, destFile>>
    /\ UNCHANGED <<dvars, tvars, fetched>>

\* if len(errs) > 0 { fmt.Fprintf(os.Stderr, ...); os.Exit(1) }
Validate ==
    /\ pc = "validate"
    /\ IF RequiredFlagErrs # <<>>
       THEN /\ stderr' = stderr \o RequiredFlagErrs \o <<<<"For", "more", "info", "see", "-h">>>>
            /\ Exit(1)
       ELSE /\ pc' = "fetch"
            /\ UNCHANGED <<stderr, exitCode>>
    /\ UNCHANGED <<args, stdout, calls, queryTime, queryRange, metrics, plot, out, slackRet,
                   tmpFile, destFile>>
    /\ UNCHANGED <<dvars, tvars, fetched>>

\* the whole seconds and the remaining nanoseconds of a duration's magnitude
DurationSeconds(d) ==
    LET n == Len(d.ns)
    IN  IF n > 9 THEN DigitsToInt(SubSeq(d.ns, 1, n - 9)) ELSE 0

DurationNanos(d) ==
    LET n == Len(d.ns)
    IN  DigitsToInt(IF n > 9 THEN SubSeq(d.ns, n - 8, n) ELSE d.ns)

\* t.Add(-d): seconds and nanoseconds with the carry between them
TimeSub(t, d) ==
    LET sgn == IF d.neg THEN -1 ELSE 1
        ns  == t.nsec - sgn * DurationNanos(d)
        s   == t.sec - sgn * DurationSeconds(d)
    IN  IF ns < 0 THEN [t EXCEPT !.sec = s - 1, !.nsec = ns + 1000000000]
        ELSE IF ns >= 1000000000 THEN [t EXCEPT !.sec = s + 1, !.nsec = ns - 1000000000]
        ELSE [t EXCEPT !.sec = s, !.nsec = ns]

\* duration / step, in nanoseconds as digits (step is 100), rounded to zero
DurationDivStep(d) ==
    [neg |-> d.neg /\ Len(d.ns) > 2,
     ns  |-> IF Len(d.ns) > 2 THEN SubSeq(d.ns, 1, Len(d.ns) - 2) ELSE <<>>]

\* v1.Range of Metrics
\* A range whose Start is the query time itself.
QueryRangeOf_NoStart(t, d) == [Start |-> t, End |-> t, Step |-> DurationDivStep(d)]

QueryRangeOf(t, d) == [Start |-> TimeSub(t, d), End |-> t, Step |-> DurationDivStep(d)]

\* a call that left the process, and whether it returned without an error
Call(op, arg, ok) == [op |-> op, arg |-> arg, ok |-> ok]

\* what the Prometheus client and server can answer
MetricsOutcomes ==
    {[kind |-> "client", value |-> <<>>], [kind |-> "query", value |-> <<>>],
     [kind |-> "vector", value |-> <<>>]}
    \cup {[kind |-> "matrix", value |-> m] : m \in Matrices}

\* A Metrics that returns whatever came back, without an error.
Metrics_AcceptAny(o) == [err |-> nil, m |-> o.value]

\* func Metrics(server, query, queryTime, duration, step): error and matrix
Metrics(o) ==
    IF o.kind = "client"
    THEN [err |-> Errorf(<<"failed", "to", "create", "prometheus", "api", "client">>, <<"parse">>),
          m |-> <<>>]
    ELSE IF o.kind = "query"
    THEN [err |-> Errorf(<<"failed", "to", "query", "prometheus", "api">>, <<"refused">>),
          m |-> <<>>]
    ELSE IF o.kind # "matrix"
    THEN [err |-> <<"unsupported", "result", "format", ":", o.kind>>, m |-> <<>>]
    ELSE [err |-> nil, m |-> o.value]

\* log("Querying Prometheus"); metrics, err := promplot.Metrics(...); fatal(err, ...)
Fetch ==
    /\ pc = "fetch"
    /\ \E o \in MetricsOutcomes :
         LET r    == Metrics(o)
             logd == stderr \o log(<<"Querying", "Prometheus", args.query>>)
         IN  /\ fetched' = o
             /\ calls' = IF o.kind = "client" THEN calls
                         ELSE Append(calls, Call("QueryRange", QueryRangeOf(queryTime, queryRange),
                                             o.kind # "query"))
             /\ IF r.err # nil
                THEN /\ stderr' = Append(logd, fatal(r.err, <<"failed", "to", "get", "metrics">>))
                     /\ Exit(1)
                     /\ UNCHANGED metrics
                ELSE /\ stderr' = logd
                     /\ metrics' = r.m
                     /\ pc' = "plot"
                     /\ UNCHANGED exitCode
    /\ UNCHANGED <<args, stdout, queryTime, queryRange, plot, out, slackRet, tmpFile, destFile>>
    /\ UNCHANGED <<dvars, tvars>>

\* strconv.ParseFloat on the text of a sample value
SampleIsNaNOrInf(v) == v \in {<<"N", "a", "N">>, <<"+", "I", "n", "f">>, <<"-", "I", "n", "f">>}

SampleNotFloat(v) == ~SampleIsNaNOrInf(v) /\ ParseFloat(v).err

\* model.Time.Unix(): milliseconds to seconds
TimestampUnix(ms) == ms \div 1000

paletteSize == 8

\* labelText.FindStringSubmatch(sample.Metric.String()): the text between the
\* first "{" and the last "}" after it, or no match
\* A label pattern that stops at the first closing brace: \{(.*?)\}
labelText_NonGreedy(m) ==
    LET opens  == {i \in 1..Len(m) : m[i] = "{"}
        lo     == CHOOSE i \in opens : \A j \in opens : i <= j
        closes == {i \in 1..Len(m) : m[i] = "}" /\ i > lo}
        hi     == CHOOSE i \in closes : \A j \in closes : i <= j
    IN  IF opens = {} \/ closes = {} THEN [found |-> FALSE, text |-> <<>>]
        ELSE [found |-> TRUE, text |-> SubSeq(m, lo + 1, hi - 1)]

\* A label pattern that matches every metric name.
labelText_Any(m) == [found |-> TRUE, text |-> m]

labelText(m) ==
    LET opens  == {i \in 1..Len(m) : m[i] = "{"}
        lo     == CHOOSE i \in opens : \A j \in opens : i <= j
        closes == {i \in 1..Len(m) : m[i] = "}" /\ i > lo}
        hi     == CHOOSE i \in closes : \A j \in closes : i >= j
    IN  IF opens = {} \/ closes = {} THEN [found |-> FALSE, text |-> <<>>]
        ELSE [found |-> TRUE, text |-> SubSeq(m, lo + 1, hi - 1)]

\* A line whose points are in the reverse order of the samples.
LineOf_Reversed(ms, s) ==
    LET n == Len(ms[s].values)
    IN  [xys   |-> [i \in 1..n |->
                       [X |-> TimestampUnix(ms[s].values[n + 1 - i].t),
                        Y |-> ms[s].values[n + 1 - i].v]],
         color |-> (s - 1) % paletteSize]

\* A line whose color index cycles through seven colors.
LineOf_Mod7(ms, s) ==
    [xys   |-> [i \in 1..Len(ms[s].values) |->
                   [X |-> TimestampUnix(ms[s].values[i].t), Y |-> ms[s].values[i].v]],
     color |-> (s - 1) % 7]

\* A line whose color index is the series index itself.
LineOf_NoMod(ms, s) ==
    [xys   |-> [i \in 1..Len(ms[s].values) |->
                   [X |-> TimestampUnix(ms[s].values[i].t), Y |-> ms[s].values[i].v]],
     color |-> s - 1]

\* the line of one series
LineOf(ms, s) ==
    [xys   |-> [i \in 1..Len(ms[s].values) |->
                   [X |-> TimestampUnix(ms[s].values[i].t), Y |-> ms[s].values[i].v]],
     color |-> (s - 1) % paletteSize]

\* the error of the first series that has one, in the order of the loop
RECURSIVE PlotLoopErr(_, _)
PlotLoopErr(ms, s) ==
    IF s > Len(ms) THEN nil
    ELSE LET vs  == ms[s].values
             bad == {i \in 1..Len(vs) : SampleNotFloat(vs[i].v)}
             nan == {i \in 1..Len(vs) : SampleIsNaNOrInf(vs[i].v)}
         IN  IF bad # {}
             THEN <<"sample", "value", "not", "float", ":">>
                      \o vs[CHOOSE i \in bad : \A j \in bad : i <= j].v
             ELSE IF nan # {}
             THEN Errorf(<<"failed", "to", "create", "line">>, <<"plotter", "NaN", "or", "Inf">>)
             ELSE PlotLoopErr(ms, s + 1)

\* the indices of colors := palette.Colors(), a palette of paletteSize colors
Colors == 0..(paletteSize - 1)

\* the loop panics: colors[...] is indexed out of range at a series that the
\* loop reaches (no earlier series and not this one has returned an error);
\* data[i] is within make(plotter.XYs, len(sample.Values)) and m[1] is read
\* only when m != nil
RECURSIVE PlotLoopPanics(_, _)
PlotLoopPanics(ms, s) ==
    IF s > Len(ms) THEN FALSE
    ELSE IF PlotLoopErr(<<ms[s]>>, 1) # nil THEN FALSE
    ELSE IF LineOf(ms, s).color \notin Colors THEN TRUE
    ELSE IF DOMAIN LineOf(ms, s).xys # 1..Len(ms[s].values) THEN TRUE
    ELSE PlotLoopPanics(ms, s + 1)

CanvasFormats == {"eps", "jpg", "jpeg", "pdf", "png", "svg", "tex", "tif", "tiff"}

\* func Plot(metrics, title, format) (io.WriterTo, error)
Plot(ms, title, format) ==
    LET e      == PlotLoopErr(ms, 1)
        legend == IF Len(ms) > 1
                  THEN {s \in 1..Len(ms) : labelText(ms[s].metric).found}
                  ELSE {}
    IN  IF e # nil THEN [err |-> e, p |-> NoPlot]
        ELSE IF format \notin CanvasFormats
        THEN [err |-> Errorf(<<"failed", "to", "create", "canvas">>, <<"unsupported", "format">>),
              p |-> NoPlot]
        ELSE [err |-> nil,
              p |-> [title  |-> title,
                     lines  |-> [s \in 1..Len(ms) |-> LineOf(ms, s)],
                     legend |-> [s \in legend |-> labelText(ms[s].metric).text],
                     format |-> format]]

\* log("Creating plot"); plot, err := promplot.Plot(...); fatal(err, ...)
MakePlot ==
    /\ pc = "plot"
    /\ LET r    == Plot(metrics, args.title, args.format)
           logd == stderr \o log(<<"Creating", "plot", args.title>>)
       IN  IF PlotLoopPanics(metrics, 1)
           THEN /\ stderr' = Append(logd, <<"panic", ":", "runtime", "error", ":", "index",
                                            "out", "of", "range">>)
                /\ Exit(2)
                /\ UNCHANGED plot
           ELSE IF r.err # nil
           THEN /\ stderr' = Append(logd, fatal(r.err, <<"failed", "to", "create", "plot">>))
                /\ Exit(1)
                /\ UNCHANGED plot
           ELSE /\ stderr' = logd
                /\ plot' = r.p
                /\ pc' = "sink"
                /\ UNCHANGED exitCode
    /\ UNCHANGED <<args, stdout, calls, queryTime, queryRange, metrics, out, slackRet, tmpFile,
                   destFile>>
    /\ UNCHANGED <<dvars, tvars, fetched>>

\* if *file != "" { "-" or os.Create(*file) } else { promplot.Slack(...) }
Sink ==
    /\ pc = "sink"
    /\ IF args.file = "-"
       THEN /\ stderr' = stderr \o log(<<"Writing", "to", "stdout">>)
            /\ out' = "stdout"
            /\ pc' = "write"
            /\ UNCHANGED <<exitCode, calls, destFile>>
       ELSE IF args.file # ""
       THEN \E ok \in BOOLEAN :
              LET logd == stderr \o log(<<"Writing", "to", args.file>>)
              IN  /\ calls' = Append(calls, Call("Create", args.file, ok))
                  /\ IF ok
                     THEN /\ stderr' = logd
                          /\ out' = "file"
                          /\ destFile' = "empty"
                          /\ pc' = "write"
                          /\ UNCHANGED exitCode
                     ELSE /\ stderr' = Append(logd, fatal(<<"open", args.file, ":", "denied">>,
                                                         <<"failed", "to", "create", "file">>))
                          /\ Exit(1)
                          /\ UNCHANGED <<out, destFile>>
       ELSE /\ stderr' = stderr \o log(<<"Uploading", "to", "Slack", "channel", args.channel>>)
            /\ pc' = "slack_post"
            /\ UNCHANGED <<exitCode, calls, out, destFile>>
    /\ UNCHANGED <<args, stdout, queryTime, queryRange, metrics, plot, slackRet, tmpFile>>
    /\ UNCHANGED <<dvars, tvars, fetched>>

\* A write whose error is dropped: the run goes on to "Done".
Write_IgnoreError ==
    /\ pc = "write"
    /\ \E ok \in BOOLEAN :
         /\ calls' = Append(calls, Call("WriteTo", out, ok))
         /\ IF out = "stdout"
            THEN /\ stdout' = Append(stdout, IF ok THEN <<"plot">> ELSE <<"partial">>)
                 /\ UNCHANGED destFile
            ELSE /\ destFile' = IF ok THEN "plot" ELSE "partial"
                 /\ UNCHANGED stdout
         /\ pc' = "done"
         /\ UNCHANGED <<stderr, exitCode>>
    /\ UNCHANGED <<args, queryTime, queryRange, metrics, plot, out, slackRet, tmpFile>>
    /\ UNCHANGED <<dvars, tvars, fetched>>

\* _, err = plot.WriteTo(out); fatal(err, "failed to copy to file")
Write ==
    /\ pc = "write"
    /\ \E ok \in BOOLEAN :
         /\ calls' = Append(calls, Call("WriteTo", out, ok))
         /\ IF out = "stdout"
            THEN /\ stdout' = Append(stdout, IF ok THEN <<"plot">> ELSE <<"partial">>)
                 /\ UNCHANGED destFile
            ELSE /\ destFile' = IF ok THEN "plot" ELSE "partial"
                 /\ UNCHANGED stdout
         /\ IF ok
            THEN /\ pc' = "done"
                 /\ UNCHANGED <<stderr, exitCode>>
            ELSE /\ stderr' = Append(stderr, fatal(<<"write", ":", "no", "space">>,
                                                   <<"failed", "to", "copy", "to", "file">>))
                 /\ Exit(1)
    /\ UNCHANGED <<args, queryTime, queryRange, metrics, plot, out, slackRet, tmpFile>>
    /\ UNCHANGED <<dvars, tvars, fetched>>

\* A post whose error is dropped: Slack goes on to the upload.
SlackPost_Continue ==
    /\ pc = "slack_post"
    /\ \E ok \in BOOLEAN :
         /\ calls' = Append(calls, Call("PostMessage", args.channel, ok))
         /\ pc' = "slack_tmp"
         /\ UNCHANGED slackRet
    /\ UNCHANGED <<args, exitCode, stdout, stderr, queryTime, queryRange, metrics, plot, out,
                   tmpFile, destFile>>
    /\ UNCHANGED <<dvars, tvars, fetched>>

\* api.PostMessageContext(...)
SlackPost ==
    /\ pc = "slack_post"
    /\ \E ok \in BOOLEAN :
         /\ calls' = Append(calls, Call("PostMessage", args.channel, ok))
         /\ IF ok
            THEN pc' = "slack_tmp" /\ UNCHANGED slackRet
            ELSE /\ slackRet' = Errorf(<<"failed", "to", "post", "message">>, <<"invalid_auth">>)
                 /\ pc' = "slack_ret"
    /\ UNCHANGED <<args, exitCode, stdout, stderr, queryTime, queryRange, metrics, plot, out,
                   tmpFile, destFile>>
    /\ UNCHANGED <<dvars, tvars, fetched>>

\* f, err := ioutil.TempFile("", "promplot-")
SlackTempFile ==
    /\ pc = "slack_tmp"
    /\ \E ok \in BOOLEAN :
         /\ calls' = Append(calls, Call("TempFile", "promplot-", ok))
         /\ IF ok
            THEN tmpFile' = "open" /\ pc' = "slack_write" /\ UNCHANGED slackRet
            ELSE /\ slackRet' = Errorf(<<"failed", "to", "create", "tmp", "file">>, <<"denied">>)
                 /\ pc' = "slack_ret"
                 /\ UNCHANGED tmpFile
    /\ UNCHANGED <<args, exitCode, stdout, stderr, queryTime, queryRange, metrics, plot, out,
                   destFile>>
    /\ UNCHANGED <<dvars, tvars, fetched>>

\* A Slack that uploads the temp file whether or not the write succeeded.
SlackWrite_Continue ==
    /\ pc = "slack_write"
    /\ \E ok \in BOOLEAN :
         /\ calls' = Append(calls, Call("WriteTo", "tmp", ok))
         /\ pc' = "slack_upload"
         /\ UNCHANGED slackRet
    /\ UNCHANGED <<args, exitCode, stdout, stderr, queryTime, queryRange, metrics, plot, out,
                   tmpFile, destFile>>
    /\ UNCHANGED <<dvars, tvars, fetched>>

\* A Slack that writes the plot to the temp file twice.
SlackWrite_Twice ==
    /\ pc = "slack_write"
    /\ calls' = calls \o <<Call("WriteTo", "tmp", TRUE), Call("WriteTo", "tmp", TRUE)>>
    /\ pc' = "slack_upload"
    /\ UNCHANGED <<args, exitCode, stdout, stderr, queryTime, queryRange, metrics, plot, out,
                   slackRet, tmpFile, destFile>>
    /\ UNCHANGED <<dvars, tvars, fetched>>

\* plot.WriteTo(f): on an error Slack returns through the deferred function
SlackWrite ==
    /\ pc = "slack_write"
    /\ \E ok \in BOOLEAN :
         /\ calls' = Append(calls, Call("WriteTo", "tmp", ok))
         /\ IF ok
            THEN pc' = "slack_upload" /\ UNCHANGED slackRet
            ELSE /\ slackRet' = Errorf(<<"failed", "to", "write", "plot", "to", "file">>,
                                       <<"no", "space">>)
                 /\ pc' = "slack_close"
    /\ UNCHANGED <<args, exitCode, stdout, stderr, queryTime, queryRange, metrics, plot, out,
                   tmpFile, destFile>>
    /\ UNCHANGED <<dvars, tvars, fetched>>

\* api.UploadFile(...); return nil
SlackUpload ==
    /\ pc = "slack_upload"
    /\ \E ok \in BOOLEAN :
         /\ calls' = Append(calls, Call("UploadFile", args.channel, ok))
         /\ slackRet' = IF ok THEN nil
                        ELSE Errorf(<<"failed", "to", "upload", "file">>, <<"channel_not_found">>)
         /\ pc' = "slack_close"
    /\ UNCHANGED <<args, exitCode, stdout, stderr, queryTime, queryRange, metrics, plot, out,
                   tmpFile, destFile>>
    /\ UNCHANGED <<dvars, tvars, fetched>>

\* a panic nothing recovers: the runtime prints it and exits with status 2
Panic(err) ==
    /\ stderr' = Append(stderr, <<"panic", ":">> \o err)
    /\ Exit(2)

\* deferred: if err = f.Close(); err != nil { panic(...) }
SlackClose ==
    /\ pc = "slack_close"
    /\ \E ok \in BOOLEAN :
         /\ calls' = Append(calls, Call("Close", "tmp", ok))
         /\ IF ok
            THEN /\ tmpFile' = "closed"
                 /\ pc' = "slack_remove"
                 /\ UNCHANGED <<stderr, exitCode>>
            ELSE /\ Panic(Errorf(<<"failed", "to", "close", "tmp", "file">>, <<"EIO">>))
                 /\ UNCHANGED tmpFile
    /\ UNCHANGED <<args, stdout, queryTime, queryRange, metrics, plot, out, slackRet, destFile>>
    /\ UNCHANGED <<dvars, tvars, fetched>>

\* deferred: if err = os.Remove(f.Name()); err != nil { panic(...) }
SlackRemove ==
    /\ pc = "slack_remove"
    /\ \E ok \in BOOLEAN :
         /\ calls' = Append(calls, Call("Remove", "tmp", ok))
         /\ IF ok
            THEN /\ tmpFile' = "removed"
                 /\ pc' = "slack_ret"
                 /\ UNCHANGED <<stderr, exitCode>>
            ELSE /\ Panic(Errorf(<<"failed", "to", "delete", "tmp", "file">>, <<"denied">>))
                 /\ UNCHANGED tmpFile
    /\ UNCHANGED <<args, stdout, queryTime, queryRange, metrics, plot, out, slackRet, destFile>>
    /\ UNCHANGED <<dvars, tvars, fetched>>

\* fatal(promplot.Slack(...), "failed to upload to Slack")
SlackReturn ==
    /\ pc = "slack_ret"
    /\ IF slackRet # nil
       THEN /\ stderr' = Append(stderr, fatal(slackRet, <<"failed", "to", "upload", "to", "Slack">>))
            /\ Exit(1)
       ELSE /\ pc' = "done"
            /\ UNCHANGED <<stderr, exitCode>>
    /\ UNCHANGED <<args, stdout, calls, queryTime, queryRange, metrics, plot, out, slackRet,
                   tmpFile, destFile>>
    /\ UNCHANGED <<dvars, tvars, fetched>>

\* log("Done") and the return of main
Done ==
    /\ pc = "done"
    /\ stderr' = stderr \o log(<<"Done">>)
    /\ Exit(0)
    /\ UNCHANGED <<args, stdout, calls, queryTime, queryRange, metrics, plot, out, slackRet,
                   tmpFile, destFile>>
    /\ UNCHANGED <<dvars, tvars, fetched>>

(***************************************************************************)
(* The specifications: a run of the binary, one call of durationValue.Set, *)
(* and unixTime.Set followed by a Set of the String of its result.  Each   *)
(* keeps the variables of the others at rest.                              *)
(***************************************************************************)

vars == <<dvars, tvars, mvars>>

DurationAtRest ==
    /\ dIn = <<>>
    /\ dOld = ZeroDuration
    /\ dRes = [err |-> FALSE, d |-> ZeroDuration]
    /\ dDone = TRUE

TimeAtRest ==
    /\ tFields = [wd |-> <<>>, mo |-> <<>>, dy |-> <<>>, tm |-> <<>>, zn |-> <<>>, yr |-> <<>>]
    /\ tIn = <<>>
    /\ tLocal = "UTC"
    /\ tRes = NoTime
    /\ tBack = NoTime
    /\ tpc = "rest"

MainAtRest ==
    /\ args = [version |-> FALSE, silent |-> FALSE, url |-> "", query |-> "", time |-> NotGiven,
               range |-> NotGiven, title |-> "", format |-> "png", file |-> "", slack |-> "",
               channel |-> "", tz |-> "UTC"]
    /\ pc = "rest"
    /\ exitCode = -1
    /\ stdout = <<>>
    /\ stderr = <<>>
    /\ calls = <<>>
    /\ queryTime = Now
    /\ queryRange = ZeroDuration
    /\ fetched = NotFetched
    /\ metrics = <<>>
    /\ plot = NoPlot
    /\ out = "none"
    /\ slackRet = nil
    /\ tmpFile = "none"
    /\ destFile = "absent"

Next ==
    \/ FlagParse
    \/ CheckVersion
    \/ Validate
    \/ Fetch
    \/ MakePlot
    \/ Sink
    \/ Write
    \/ SlackPost
    \/ SlackTempFile
    \/ SlackWrite
    \/ SlackUpload
    \/ SlackClose
    \/ SlackRemove
    \/ SlackReturn
    \/ Done

InitMain == Init /\ DurationAtRest /\ TimeAtRest

Spec == InitMain /\ [][Next]_vars

NextDuration == SetRange

InitSetRange == InitDuration /\ TimeAtRest /\ MainAtRest

SpecDuration == InitSetRange /\ [][NextDuration]_vars

NextTime ==
    \/ SetTime
    \/ SetTimeAgain

InitSetTime == InitTime /\ DurationAtRest /\ MainAtRest

SpecTime == InitSetTime /\ [][NextTime]_vars

(***************************************************************************)
(* Properties of a run (specification Spec).                               *)
(***************************************************************************)

\* what flag.Parse made of the command line, read off the arguments
TimeFlagRejected == args.time.given /\ unixTime_Set(args.tz, args.time.text).err

RangeFlagResult ==
    IF args.range.given THEN durationValue_Set(ZeroDuration, args.range.text)
    ELSE [err |-> FALSE, d |-> ZeroDuration]

FlagRejected == TimeFlagRejected \/ RangeFlagResult.err

RangeIsZero == RangeFlagResult.d.ns = <<>>

\* how a run that has left the validation left it
ValidationRejected ==
    /\ pc = "exit"
    /\ stderr # <<>>
    /\ stderr[Len(stderr)] = <<"For", "more", "info", "see", "-h">>

ValidationAccepted ==
    /\ pc \notin {"start", "version", "validate"}
    /\ ~FlagRejected
    /\ ~args.version
    /\ ~ValidationRejected

RequiredGiven == args.url # "" /\ args.query # "" /\ ~RangeIsZero

\* C1 as stated: with -url, -query and a non-zero -range, the validation
\* accepts exactly when one and only one of "-file is set" and "-slack and
\* -channel are both set" holds, and a rejection is exit status 1 before any
\* call leaves the process.
C1_AsStated ==
    (RequiredGiven /\ (ValidationAccepted \/ ValidationRejected)) =>
        /\ ValidationAccepted <=>
               ((args.file # "") # (args.slack # "" /\ args.channel # ""))
        /\ ValidationRejected => (exitCode = 1 /\ calls = <<>>)

\* C1: with -url, -query and a non-zero -range, the validation accepts
\* exactly when one and only one of -file and -slack is set and, when it is
\* -slack, -channel is set too; a rejection is exit status 1 before any call
\* leaves the process.
C1_Validation ==
    (RequiredGiven /\ (ValidationAccepted \/ ValidationRejected)) =>
        /\ ValidationAccepted <=>
               /\ (args.file # "") # (args.slack # "")
               /\ args.slack # "" => args.channel # ""
        /\ ValidationRejected => (exitCode = 1 /\ calls = <<>>)

\* -file and -slack together, without -channel: rejected
C1_Witness ==
    /\ RequiredGiven
    /\ ValidationRejected
    /\ args.file # ""
    /\ args.slack # ""
    /\ args.channel = ""

NoExternalCall == calls = <<>> /\ pc \in {"start", "version", "validate", "exit"}

\* C2 as stated: without -url, without -query or with a zero -range the run
\* exits with status 1 whatever the other flags are, and makes no metrics
\* query, file creation, Slack post or Slack upload.
C2_AsStated ==
    (args.url = "" \/ args.query = "" \/ RangeIsZero) =>
        /\ NoExternalCall
        /\ pc = "exit" => exitCode = 1

\* C2: without -url, without -query or with a zero -range the run makes no
\* metrics query, file creation, Slack post or Slack upload, and it exits
\* with status 2 when flag.Parse rejected a value, else with status 0 when
\* -version was given, else with status 1.
C2_MissingRequired ==
    (args.url = "" \/ args.query = "" \/ RangeIsZero) =>
        /\ NoExternalCall
        /\ pc = "exit" =>
               exitCode = IF FlagRejected THEN 2 ELSE IF args.version THEN 0 ELSE 1

\* no -url, everything else in order: rejected by the validation
C2_Witness ==
    /\ args.url = ""
    /\ args.query # ""
    /\ ~RangeIsZero
    /\ args.file # ""
    /\ args.slack = ""
    /\ ~args.version
    /\ ValidationRejected

(***************************************************************************)
(* Properties of durationValue.Set (specification SpecDuration).           *)
(*                                                                         *)
(* A number+unit component is a decimal number (digits, optionally a point *)
(* and a fraction, at least one digit) followed by one of h, m, s, d.      *)
(***************************************************************************)

\* nanoseconds of number * unit, the number given as its integer and fraction
\* digits: h = 36 * 10^11, m = 6 * 10^10, s = 10^9, d = 24 h
Contribution(ip, fp, u) ==
    LET n    == ToDigits(ip \o fp)
        mant == IF u = "h" THEN MulSmall(n, 36)
                ELSE IF u = "m" THEN MulSmall(n, 6)
                ELSE IF u = "s" THEN n
                ELSE MulSmall(MulSmall(n, 36), 24)
        exp  == IF u = "m" THEN 10 ELSE IF u = "s" THEN 9 ELSE 11
    IN  Norm(mant \o Zeros(exp - Len(fp)))

\* whether s is a sequence of components, and the sum of their contributions
RECURSIVE SumOfComponents(_)
SumOfComponents(s) ==
    IF s = <<>> THEN [ok |-> TRUE, ns |-> <<>>]
    ELSE LET ni   == DigitRun(s)
             r1   == Drop(s, ni)
             dot  == r1 # <<>> /\ r1[1] = "."
             nf   == IF dot THEN DigitRun(Tail(r1)) ELSE 0
             r2   == IF dot THEN Drop(r1, 1 + nf) ELSE r1
             good == ni + nf >= 1 /\ r2 # <<>> /\ r2[1] \in {"h", "m", "s", "d"}
             rest == SumOfComponents(Tail(r2))
         IN  IF ~good \/ ~rest.ok THEN [ok |-> FALSE, ns |-> <<>>]
             ELSE [ok |-> TRUE,
                   ns |-> AddD(Contribution(SubSeq(s, 1, ni), SubSeq(r1, 2, 1 + nf), r2[1]),
                               rest.ns)]

IsComponentSeq(s) == s # <<>> /\ SumOfComponents(s).ok

\* C3 as stated: Set succeeds on every sequence of number+unit components over
\* h, m, s and d, and stores the sum of the components' contributions, d
\* counted as 24h.
C3_AsStated ==
    (dDone /\ IsComponentSeq(dIn)) =>
        /\ ~dRes.err
        /\ dRes.d = [neg |-> FALSE, ns |-> SumOfComponents(dIn).ns]

\* C4 as stated: Set returns an error for the empty string and for every
\* string that is not a sequence of number+unit components (a leading sign
\* is not held against the string).
C4_AsStated ==
    (/\ dDone
     /\ ~IsComponentSeq(dIn)
     /\ ~(dIn # <<>> /\ dIn[1] \in {"+", "-"} /\ IsComponentSeq(Tail(dIn)))) => dRes.err

(***************************************************************************)
(* Properties of unixTime.Set and unixTime.String (specification SpecTime).*)
(***************************************************************************)

FirstIndex(s, c) ==
    IF \E i \in 1..Len(s) : s[i] = c
    THEN CHOOSE i \in 1..Len(s) : s[i] = c /\ \A j \in 1..(i - 1) : s[j] # c
    ELSE Len(s) + 1

\* the hour, minute, second and fraction texts of a time token
ClockTexts(tm) ==
    LET c1 == FirstIndex(tm, ":")
        r1 == Drop(tm, c1)
        c2 == FirstIndex(r1, ":")
        r2 == Drop(r1, c2)
        dt == FirstIndex(r2, ".")
    IN  [hh |-> SubSeq(tm, 1, c1 - 1), mm |-> SubSeq(r1, 1, c2 - 1),
         ss |-> SubSeq(r2, 1, dt - 1), frac |-> Drop(r2, dt)]

\* the offset from UTC an abbreviation stands for
AbbreviationOffset(zn) ==
    CASE zn = <<"U", "T", "C">> -> 0
      [] zn = <<"C", "E", "T">> -> 3600
      [] zn = <<"C", "E", "S", "T">> -> 7200
      [] zn = <<"M", "S", "T">> -> -25200

\* the instant a literal with these fields denotes
DenotedInstant(f) ==
    LET c  == ClockTexts(f.tm)
        mo == IF f.mo = <<"F", "e", "b">> THEN 2 ELSE 7
        dy == DigitsToInt(ToDigits(SelectSeq(f.dy, IsDigit)))
        fr == ToDigits(c.frac)
    IN  [sec  |-> DateUnix(DigitsToInt(ToDigits(f.yr)), mo, dy, DigitsToInt(ToDigits(c.hh)),
                           DigitsToInt(ToDigits(c.mm)), DigitsToInt(ToDigits(c.ss)))
                  - AbbreviationOffset(f.zn),
         nsec |-> DigitsToInt(fr \o Zeros(9 - Len(fr)))]

\* C5 as stated: an accepted literal is stored as the instant it denotes, and
\* Set on the String of the stored value succeeds and yields the same instant.
C5_AsStated ==
    (tpc # "start" /\ ~tRes.err) =>
        /\ tRes.t.sec = DenotedInstant(tFields).sec
        /\ tRes.t.nsec = DenotedInstant(tFields).nsec
        /\ tpc = "back" =>
               (~tBack.err /\ tBack.t.sec = tRes.t.sec /\ tBack.t.nsec = tRes.t.nsec)

OmitsField(f) ==
    \/ f.wd = <<>>
    \/ f.mo = <<>>
    \/ f.dy = <<>>
    \/ f.tm = <<>>
    \/ f.zn = <<>>
    \/ f.yr = <<>>

WrongWidth(tm) == tm # <<>> /\ (Len(ClockTexts(tm).mm) # 2 \/ Len(ClockTexts(tm).ss) # 2)

\* C6: Set returns an error for the empty string, for every literal that
\* leaves out the weekday, the month, the day, the time, the zone or the
\* year, and for every literal whose minutes or seconds are not two digits.
C6_Rejects ==
    (tpc # "start" /\ (tIn = <<>> \/ OmitsField(tFields) \/ WrongWidth(tFields.tm))) => tRes.err

\* a complete literal with one-digit seconds, rejected
C6_Witness ==
    /\ tpc = "set"
    /\ ~OmitsField(tFields)
    /\ tFields.tm = <<"1", "0", ":", "0", "8", ":", "5">>
    /\ tRes.err

(***************************************************************************)
(* Properties of the pipeline (specification Spec).                        *)
(***************************************************************************)

\* the stage main is in: 1 parse, 2 fetch, 3 render, 4 sink, 5 finished
Stage(p) ==
    CASE p \in {"start", "version", "validate"} -> 1
      [] p = "fetch" -> 2
      [] p = "plot" -> 3
      [] p \in {"sink", "write", "slack_post", "slack_tmp", "slack_write", "slack_upload",
                "slack_close", "slack_remove", "slack_ret"} -> 4
      [] p \in {"done", "exit"} -> 5

SinkOps == {"Create", "WriteTo", "PostMessage", "TempFile", "UploadFile", "Close", "Remove"}

LastLine(lines) == lines[Len(lines)]

\* a step that reported a failure: a line of fatal or of a panic
ReportsFailure ==
    /\ Len(stderr') > Len(stderr)
    /\ Head(LastLine(stderr')) \in {"msg", "panic"}

\* C7: the run is a linear pipeline.  Render starts only when the fetch has
\* returned a matrix without an error, the sink only when render has returned
\* a plot without an error; a step moves to the same stage, to the next one,
\* or ends the run; a step that reports a failure ends the run with a
\* non-zero exit status, and nothing follows the end of the run.
C7_Linear ==
    /\ [](pc = "plot" =>
            (exitCode = -1 /\ Len(calls) = 1 /\ calls[1].op = "QueryRange" /\ plot = NoPlot))
    /\ [](Stage(pc) = 4 => (exitCode = -1 /\ plot # NoPlot /\ calls[1].op = "QueryRange"))
    /\ [](\A i \in 1..Len(calls) : calls[i].op \in SinkOps => (i > 1 /\ plot # NoPlot))
    /\ [][/\ pc # "exit"
          /\ pc' = "exit" \/ Stage(pc') = Stage(pc) \/ Stage(pc') = Stage(pc) + 1
          /\ pc' = "plot" => (pc = "fetch" /\ ~ReportsFailure)
          /\ (Stage(pc') = 4 /\ Stage(pc) # 4) => (pc = "plot" /\ ~ReportsFailure /\ plot' # NoPlot)
          /\ ReportsFailure => (pc' = "exit" /\ exitCode' \notin {-1, 0})
          /\ pc' = "exit" <=> exitCode' # -1]_vars

\* render failed on a fetched matrix: the run ended with status 1 and no sink
\* operation
C7_Witness ==
    /\ pc = "exit"
    /\ exitCode = 1
    /\ Len(calls) = 1
    /\ calls[1].op = "QueryRange"
    /\ plot = NoPlot
    /\ stderr # <<>>
    /\ SubSeq(LastLine(stderr), 1, 6) = <<"msg", ":", "failed", "to", "create", "line">>

\* a run that ended after reporting a failure of any kind
FailureReported ==
    stderr # <<>> /\ Head(LastLine(stderr)) \in {"msg", "panic", "Usage", "For"}

\* C8 as stated: a run ends with status 0 or 1 only, 0 exactly when it
\* completed or printed the version, 1 for every failure (a rejected flag
\* value, a validation failure, a fetch, render or sink failure).
C8_AsStated ==
    pc = "exit" =>
        /\ exitCode \in {0, 1}
        /\ exitCode = 0 <=> ~FailureReported
        /\ FlagRejected => exitCode = 1

StagePrefixes ==
    {<<"failed", "to", "get", "metrics">>, <<"failed", "to", "create", "plot">>,
     <<"failed", "to", "create", "file">>, <<"failed", "to", "copy", "to", "file">>,
     <<"failed", "to", "upload", "to", "Slack">>}

\* C9 as stated: when the pipeline fails, the message on standard error
\* begins with the prefix of the failing stage (the msg argument of fatal)
\* followed by the error.
C9_AsStated ==
    (pc = "exit" /\ ValidationAccepted /\ exitCode # 0) =>
        /\ stderr # <<>>
        /\ \E p \in StagePrefixes :
             /\ HasPrefix(LastLine(stderr), p \o <<":">>)
             /\ Len(LastLine(stderr)) > Len(p) + 1

Contains(line, words) ==
    \E i \in 0..(Len(line) - Len(words)) : SubSeq(line, i + 1, i + Len(words)) = words

UploadFailed == HasPrefix(slackRet, <<"failed", "to", "upload", "file">>)

\* C10 as stated: with -slack and -channel set, a run whose Slack file upload
\* returned an error exits with status 1 and its standard error contains
\* "failed to upload".
C10_AsStated ==
    (pc = "exit" /\ args.slack # "" /\ args.channel # "" /\ UploadFailed) =>
        /\ exitCode = 1
        /\ \E i \in 1..Len(stderr) : Contains(stderr[i], <<"failed", "to", "upload">>)

(***************************************************************************)
(* Properties of the sink (specification Spec).                            *)
(***************************************************************************)

\* the positions in calls of the calls of an operation
CallsOf(op) == {i \in 1..Len(calls) : calls[i].op = op}

\* C11 as stated: in every terminal state no temp file created by the run
\* still exists (none was created, or it was removed).
C11_AsStated == pc = "exit" => tmpFile \in {"none", "removed"}

\* C12: Slack posts the message before it uploads the file, both to the
\* channel given; it returns nil only when both calls succeeded; after a
\* failed post there is no upload; after a failed upload there is no further
\* post or upload; each is called at most once.
C12_SlackOrder ==
    /\ \A j \in CallsOf("UploadFile") :
         /\ calls[j].arg = args.channel
         /\ \E i \in CallsOf("PostMessage") :
              i < j /\ calls[i].ok /\ calls[i].arg = calls[j].arg
    /\ (pc \in {"slack_ret", "done"} /\ args.file = "" /\ slackRet = nil) =>
         /\ \E i \in CallsOf("PostMessage") : calls[i].ok
         /\ \E j \in CallsOf("UploadFile") : calls[j].ok
    /\ (pc = "exit" /\ exitCode = 0 /\ args.file = "" /\ ~args.version) =>
         /\ \E i \in CallsOf("PostMessage") : calls[i].ok
         /\ \E j \in CallsOf("UploadFile") : calls[j].ok
    /\ \A i \in CallsOf("PostMessage") : ~calls[i].ok => i = Len(calls)
    /\ \A j \in CallsOf("UploadFile") :
         ~calls[j].ok =>
             /\ slackRet # nil
             /\ \A k \in (j + 1)..Len(calls) : calls[k].op \in {"Close", "Remove"}
    /\ Cardinality(CallsOf("PostMessage")) <= 1
    /\ Cardinality(CallsOf("UploadFile")) <= 1

\* the post succeeded, the upload failed, the run has ended
C12_Witness ==
    /\ pc = "exit"
    /\ \E i \in CallsOf("PostMessage") : calls[i].ok
    /\ \E j \in CallsOf("UploadFile") : ~calls[j].ok

HasDoneLine == \E i \in 1..Len(stderr) : stderr[i] = <<"Done">>

\* C13: with -file "-" the plot goes to standard output and no file is
\* created; with another -file the plot goes to a file created at that path;
\* a failed creation or a failed write ends the run with status 1 and
\* without "Done".
C13_FileMode ==
    /\ args.file = "-" =>
         /\ CallsOf("Create") = {}
         /\ destFile \in {"absent", "old"}
         /\ \A i \in CallsOf("WriteTo") :
              /\ calls[i].arg = "stdout"
              /\ stdout = <<IF calls[i].ok THEN <<"plot">> ELSE <<"partial">>>>
    /\ args.file \notin {"", "-"} =>
         /\ stdout = <<>> \/ args.version
         /\ \A i \in CallsOf("Create") : calls[i].arg = args.file
         /\ \A i \in CallsOf("WriteTo") :
              /\ calls[i].arg = "file"
              /\ \E c \in CallsOf("Create") : c < i /\ calls[c].ok
              /\ calls[i].ok => destFile = "plot"
    /\ args.file # "" =>
         \A i \in CallsOf("Create") \cup CallsOf("WriteTo") :
             ~calls[i].ok => (pc = "exit" /\ exitCode = 1 /\ ~HasDoneLine)

\* the write to standard output failed, in a run that logs
C13_Witness ==
    /\ args.file = "-"
    /\ ~args.silent
    /\ pc = "exit"
    /\ \E i \in CallsOf("WriteTo") : ~calls[i].ok

\* where the sink of this command line writes the plot
Destination == IF args.file = "" THEN "tmp" ELSE IF args.file = "-" THEN "stdout" ELSE "file"

\* C14: plot.WriteTo is called at most once; in a run that exits 0 without
\* -version it was called exactly once, on the destination of the command
\* line; in a run that ended before Plot returned a plot it was not called.
C14_WrittenOnce ==
    /\ Cardinality(CallsOf("WriteTo")) <= 1
    /\ (pc = "exit" /\ exitCode = 0 /\ ~args.version) =>
         \E i \in CallsOf("WriteTo") : calls[i].ok /\ calls[i].arg = Destination
    /\ (pc = "exit" /\ plot = NoPlot) => CallsOf("WriteTo") = {}

\* a run to Slack that ended with status 0
C14_Witness ==
    /\ pc = "exit"
    /\ exitCode = 0
    /\ args.slack # ""
    /\ ~args.version
    /\ Cardinality(CallsOf("WriteTo")) = 1

(***************************************************************************)
(* Properties of the fetch (specification Spec).                           *)
(***************************************************************************)

\* the decimal digits of a natural number, none for 0
RECURSIVE IntDigits(_)
IntDigits(n) == IF n = 0 THEN <<>> ELSE Append(IntDigits(n \div 10), n % 10)

Abs(n) == IF n < 0 THEN -n ELSE n

\* the signed nanoseconds from instant a to instant b, as sign and digits
Elapsed(a, b) ==
    LET s0 == b.sec - a.sec
        n0 == b.nsec - a.nsec
        s  == IF s0 > 0 /\ n0 < 0 THEN s0 - 1 ELSE IF s0 < 0 /\ n0 > 0 THEN s0 + 1 ELSE s0
        n  == IF s0 > 0 /\ n0 < 0 THEN n0 + 1000000000
              ELSE IF s0 < 0 /\ n0 > 0 THEN n0 - 1000000000 ELSE n0
        nd == IntDigits(Abs(n))
    IN  [neg |-> s < 0 \/ n < 0,
         ns  |-> Norm(IntDigits(Abs(s)) \o Zeros(9 - Len(nd)) \o nd)]

\* q is d divided by n with truncation toward zero (n a power of ten here)
IsQuotient(q, d, n) ==
    /\ \E r \in 0..(n - 1) : AddD(MulSmall(MulSmall(q.ns, 10), n \div 10), IntDigits(r)) = d.ns
    /\ q.neg = (d.neg /\ q.ns # <<>>)

FetchFailed == fetched.kind \in {"client", "query", "vector"}

\* C16: when the client cannot be created, the query errors or the result
\* is not a matrix, Metrics returns an error and no series (main holds no
\* series and exits 1 through fatal with that error); one call of Metrics
\* issues the range query at most once, not at all without a client; main
\* calls Metrics at most once in a run.
C16_FetchErrors ==
    /\ [](FetchFailed =>
            /\ Metrics(fetched).err # nil
            /\ Metrics(fetched).m = <<>>
            /\ metrics = <<>>
            /\ plot = NoPlot
            /\ pc = "exit"
            /\ exitCode = 1
            /\ \E e \in {Metrics(fetched).err} :
                 LastLine(stderr) = fatal(e, <<"failed", "to", "get", "metrics">>))
    /\ [](Cardinality(CallsOf("QueryRange")) =
             IF fetched.kind \in {"none", "client"} THEN 0 ELSE 1)
    /\ [][fetched' # fetched => (fetched = NotFetched /\ pc = "fetch" /\ pc' # "fetch")]_vars
    /\ [][pc' = "fetch" => fetched' = NotFetched]_vars

\* the server answered with a result that is not a matrix
C16_Witness == fetched.kind = "vector" /\ pc = "exit" /\ Len(calls) = 1

(***************************************************************************)
(* Properties of the plot (specification Spec).                            *)
(***************************************************************************)

\* C17: the plot has one line per series; the line of a series with N
\* samples has N points, the i-th with the value of the i-th sample as Y and
\* the whole seconds of its timestamp as X, so the points keep the order of
\* the samples.
C17_PointsOfSamples ==
    plot # NoPlot =>
        /\ Len(plot.lines) = Len(metrics)
        /\ \A s \in 1..Len(metrics) :
             LET vs  == metrics[s].values
                 xys == plot.lines[s].xys
             IN  /\ Len(xys) = Len(vs)
                 /\ \A i \in 1..Len(vs) :
                      /\ xys[i].Y = vs[i].v
                      /\ xys[i].X * 1000 <= vs[i].t
                      /\ vs[i].t < (xys[i].X + 1) * 1000
                 /\ \A i, j \in 1..Len(vs) :
                      (i < j /\ vs[i].t <= vs[j].t) => xys[i].X <= xys[j].X

\* a line of three points, two of them within the same second
C17_Witness ==
    /\ plot # NoPlot
    /\ \E s \in 1..Len(metrics) :
         /\ Len(plot.lines[s].xys) = 3
         /\ plot.lines[s].xys[1].X = plot.lines[s].xys[2].X
         /\ metrics[s].values[1].t # metrics[s].values[2].t
         /\ plot.lines[s].xys[1].Y # plot.lines[s].xys[2].Y

\* C19: the line of the series at index s, counted from 0, has the palette
\* color at index s modulo 8; two lines share the color exactly when their
\* indices are congruent modulo 8.
C19_PaletteCycle ==
    plot # NoPlot =>
        /\ \A s \in 1..Len(plot.lines) :
             /\ plot.lines[s].color \in 0..7
             /\ \E k \in 0..Len(plot.lines) : s - 1 = 8 * k + plot.lines[s].color
        /\ \A s, u \in 1..Len(plot.lines) :
             (plot.lines[s].color = plot.lines[u].color) <=> (s % 8 = u % 8)
        /\ \A s \in 1..Len(plot.lines) :
             s + 8 <= Len(plot.lines) => plot.lines[s].color = plot.lines[s + 8].color

\* nine series: the first and the ninth share the color, the others differ
C19_Witness ==
    /\ plot # NoPlot
    /\ Len(plot.lines) = 9
    /\ plot.lines[1].color = plot.lines[9].color
    /\ Cardinality({plot.lines[s].color : s \in 1..9}) = 8

\* the text holds an opening brace with a closing brace after it
HasBracePair(m) == \E i, j \in 1..Len(m) : i < j /\ m[i] = "{" /\ m[j] = "}"

\* C20: a series has a legend entry exactly when the matrix has more than
\* one series and its metric name holds a pair of curly braces, the entry
\* being the text between them; a single series gives an empty legend; every
\* series has its line, so the legend has no more entries than the plot has
\* lines.
C20_Legend ==
    plot # NoPlot =>
        /\ DOMAIN plot.legend =
             {s \in 1..Len(metrics) : Len(metrics) > 1 /\ HasBracePair(metrics[s].metric)}
        /\ Len(metrics) = 1 => DOMAIN plot.legend = {}
        /\ \A s \in DOMAIN plot.legend :
             \E i, j \in 1..Len(metrics[s].metric) :
                 /\ i < j
                 /\ plot.legend[s] = SubSeq(metrics[s].metric, i + 1, j - 1)
                 /\ metrics[s].metric[i] = "{"
                 /\ metrics[s].metric[j] = "}"
        /\ Len(plot.lines) = Len(metrics)
        /\ Cardinality(DOMAIN plot.legend) <= Len(plot.lines)

\* two series, one with braces and one without: two lines, one legend entry
C20_Witness ==
    /\ plot # NoPlot
    /\ Len(plot.lines) = 2
    /\ Cardinality(DOMAIN plot.legend) = 1
    /\ \E s \in 1..2 : ~HasBracePair(metrics[s].metric)

\* the positions of a character in a text
Positions(m, c) == {i \in 1..Len(m) : m[i] = c}

\* the text of m after position i and before position j
Between(m, i, j) == SubSeq(m, i + 1, j - 1)

\* C21 as stated: the legend label of a series is the text after the first
\* "{" of its metric name up to the first "}" that follows it.
C21_AsStated ==
    \A s \in DOMAIN plot.legend :
        \E i \in Positions(metrics[s].metric, "{"), j \in Positions(metrics[s].metric, "}") :
            /\ \A k \in Positions(metrics[s].metric, "{") : i <= k
            /\ i < j
            /\ \A k \in Positions(metrics[s].metric, "}") : k > i => j <= k
            /\ plot.legend[s] = Between(metrics[s].metric, i, j)

\* C21: the legend label of a series is the text after the first "{" of its
\* metric name up to the last "}" of the name.
C21_FirstToLast ==
    \A s \in DOMAIN plot.legend :
        \E i \in Positions(metrics[s].metric, "{"), j \in Positions(metrics[s].metric, "}") :
            /\ \A k \in Positions(metrics[s].metric, "{") : i <= k
            /\ i < j
            /\ \A k \in Positions(metrics[s].metric, "}") : k <= j
            /\ plot.legend[s] = Between(metrics[s].metric, i, j)

\* a legend label taken from a metric name with two closing braces
C21_Witness ==
    /\ plot # NoPlot
    /\ \E s \in DOMAIN plot.legend :
         /\ Cardinality(Positions(metrics[s].metric, "}")) = 2
         /\ plot.legend[s] = <<"a", "=", "\"", "}", "\"">>

(***************************************************************************)
(* Properties of the flags -version and -silent and of the output streams  *)
(* (specification Spec).                                                   *)
(***************************************************************************)

\* the run printed the version line and did nothing else
VersionOnly ==
    /\ exitCode = 0
    /\ stdout = <<<<"promplot", "version">>>>
    /\ stderr = <<>>
    /\ calls = <<>>
    /\ fetched = NotFetched
    /\ plot = NoPlot
    /\ tmpFile = "none"
    /\ destFile \in {"absent", "old"}

\* C22 as stated: with -version every run ends having printed the version
\* line with status 0, without a validation report, a query or a sink
\* operation, whatever the other flags are.
C22_AsStated == (args.version /\ pc = "exit") => VersionOnly

\* C22: with -version and values of -time and -range that flag.Parse
\* accepts, the run ends having printed the version line with status 0,
\* without a validation report, a query or a sink operation, whatever the
\* other flags are; no run with -version goes past the version check.
C22_VersionFirst ==
    /\ (args.version /\ pc = "exit" /\ ~FlagRejected) => VersionOnly
    /\ args.version => (pc \in {"start", "version", "exit"} /\ calls = <<>>)

\* -version with the required flags missing
C22_Witness ==
    /\ args.version
    /\ pc = "exit"
    /\ exitCode = 0
    /\ args.url = ""
    /\ args.query = ""
    /\ ~args.range.given
    /\ args.file = ""
    /\ args.slack = ""

\* the first words of the progress lines of main
ProgressWords == {"Querying", "Creating", "Writing", "Uploading", "Done"}

\* the positions in stderr of the progress lines that begin with a word
ProgressLines(w) == {i \in 1..Len(stderr) : Head(stderr[i]) = w}

\* the sink has succeeded: the plot was written to the file or to standard
\* output, or Slack has returned nil after a successful post and upload
SinkSucceeded ==
    IF args.file # ""
    THEN \E i \in CallsOf("WriteTo") : calls[i].ok /\ calls[i].arg = Destination
    ELSE /\ slackRet = nil
         /\ \E i \in CallsOf("WriteTo") : calls[i].ok /\ calls[i].arg = "tmp"
         /\ \E i \in CallsOf("PostMessage") : calls[i].ok
         /\ \E i \in CallsOf("UploadFile") : calls[i].ok
         /\ tmpFile = "removed"

\* C23: with -silent no progress line is written; without it the line of a
\* stage is on standard error as soon as anything of the stage has happened,
\* the lines come in the order of the stages, each at most once, and "Done"
\* is there only when the sink has succeeded.
C23_Progress ==
    /\ args.silent => \A w \in ProgressWords : ProgressLines(w) = {}
    /\ ~args.silent =>
         /\ fetched # NotFetched => ProgressLines("Querying") # {}
         /\ CallsOf("QueryRange") # {} => ProgressLines("Querying") # {}
         /\ Stage(pc) \in {3, 4} => ProgressLines("Querying") # {}
         /\ plot # NoPlot => ProgressLines("Creating") # {}
         /\ Stage(pc) = 4 => ProgressLines("Creating") # {}
         /\ (CallsOf("Create") # {} \/ out # "none") => ProgressLines("Writing") # {}
         /\ (CallsOf("PostMessage") # {} \/ tmpFile # "none") => ProgressLines("Uploading") # {}
         /\ (pc = "exit" /\ exitCode = 0 /\ ~args.version) => ProgressLines("Done") # {}
    /\ \A w \in ProgressWords : Cardinality(ProgressLines(w)) <= 1
    /\ \A i \in ProgressLines("Creating") : \E j \in ProgressLines("Querying") : j < i
    /\ \A i \in ProgressLines("Writing") \cup ProgressLines("Uploading") :
         \E j \in ProgressLines("Creating") : j < i
    /\ ProgressLines("Writing") = {} \/ ProgressLines("Uploading") = {}
    /\ \A i \in ProgressLines("Done") :
         /\ i = Len(stderr)
         /\ ProgressLines("Writing") \cup ProgressLines("Uploading") # {}
         /\ SinkSucceeded
         /\ pc = "exit"
         /\ exitCode = 0

\* a run to Slack that logged its four progress lines
C23_Witness ==
    /\ ~args.silent
    /\ args.slack # ""
    /\ pc = "exit"
    /\ Len(stderr) = 4
    /\ ProgressLines("Done") = {4}
    /\ ProgressLines("Uploading") = {3}

\* what the WriteTo calls on standard output have written, in their order
WrittenToStdout ==
    LET RECURSIVE W(_)
        W(n) == IF n = 0 THEN <<>>
                ELSE IF calls[n].op = "WriteTo" /\ calls[n].arg = "stdout"
                THEN Append(W(n - 1), IF calls[n].ok THEN <<"plot">> ELSE <<"partial">>)
                ELSE W(n - 1)
    IN  W(Len(calls))

\* C24 as stated: with -file "-" standard output holds only what the one
\* call of plot.WriteTo wrote, in every run.
C24_AsStated ==
    args.file = "-" => (stdout = WrittenToStdout /\ Len(stdout) <= 1)

\* C24: with -file "-" and without -version standard output holds only what
\* the one call of plot.WriteTo wrote, while progress lines, validation
\* messages and error messages are on standard error; with -version the
\* version line is the only thing on standard output.
C24_StdoutIsPlot ==
    args.file = "-" =>
        /\ ~args.version => (stdout = WrittenToStdout /\ Len(stdout) <= 1)
        /\ args.version => (stdout \in {<<>>, <<<<"promplot", "version">>>>} /\ calls = <<>>)
        /\ (pc = "exit" /\ exitCode \notin {0, -1}) =>
             (stderr # <<>> /\ Head(LastLine(stderr)) \in {"msg", "For", "Usage", "panic"})
        /\ (~args.silent /\ out = "stdout") => ProgressLines("Writing") # {}

\* a logged run that wrote the plot to standard output
C24_Witness ==
    /\ args.file = "-"
    /\ ~args.version
    /\ ~args.silent
    /\ pc = "exit"
    /\ exitCode = 0
    /\ stdout = <<<<"plot">>>>
    /\ Len(stderr) = 4

\* C25 as stated: a run that ends with a non-zero status has left the file
\* at the -file path as it was: not created, not truncated, not written.
C25_AsStated == (pc = "exit" /\ exitCode # 0) => destFile \in {"absent", "old"}

\* instant a is strictly earlier than instant b
Before(a, b) == a.sec < b.sec \/ (a.sec = b.sec /\ a.nsec < b.nsec)

\* C26 as stated: every range query issued has its Start strictly earlier
\* than its End and a Step strictly greater than zero.
C26_AsStated ==
    \A i \in CallsOf("QueryRange") :
        /\ Before(calls[i].arg.Start, calls[i].arg.End)
        /\ ~calls[i].arg.Step.neg
        /\ calls[i].arg.Step.ns # <<>>

(***************************************************************************)
(* Further properties of Slack and of Plot (specification Spec).           *)
(***************************************************************************)

\* the calls of Slack that come before the upload
BeforeUpload == CallsOf("PostMessage") \cup CallsOf("TempFile") \cup CallsOf("WriteTo")

\* C27: in Slack every upload comes after a successful post, a successful
\* creation of the temp file and a successful write of the plot to it, in
\* that order; when one of the three fails there is no upload; when the post
\* fails no temp file is created.
C27_UploadLast ==
    args.file = "" =>
        /\ \A u \in CallsOf("UploadFile") :
             \E p \in CallsOf("PostMessage"), f \in CallsOf("TempFile"), w \in CallsOf("WriteTo") :
                 /\ p < f /\ f < w /\ w < u
                 /\ calls[p].ok /\ calls[f].ok /\ calls[w].ok
                 /\ calls[w].arg = "tmp"
        /\ (\E i \in BeforeUpload : ~calls[i].ok) => CallsOf("UploadFile") = {}
        /\ (\E p \in CallsOf("PostMessage") : ~calls[p].ok) =>
             (CallsOf("TempFile") = {} /\ tmpFile = "none")
        /\ (\E f \in CallsOf("TempFile") : ~calls[f].ok) =>
             (CallsOf("WriteTo") = {} /\ tmpFile = "none")
        /\ pc = "slack_upload" => \E w \in CallsOf("WriteTo") : calls[w].ok

\* the write of the plot to the temp file failed and the run has ended
C27_Witness ==
    /\ args.file = ""
    /\ pc = "exit"
    /\ exitCode = 1
    /\ tmpFile = "removed"
    /\ \E w \in CallsOf("WriteTo") : ~calls[w].ok

\* a line of the Go runtime about a failed index expression
IsRuntimePanic(l) == Len(l) >= 3 /\ l[1] = "panic" /\ l[3] = "runtime"

\* C28: Plot does not panic on an index, whatever the matrix.  No run
\* prints a runtime panic; once the fetch has returned a matrix and the run
\* is past the plot stage, Plot has returned a plot or an error that main
\* reported with status 1; in a plot every line has a color of the palette
\* and every legend entry comes from a metric name that matched.
C28_NoIndexPanic ==
    /\ \A i \in 1..Len(stderr) : ~IsRuntimePanic(stderr[i])
    /\ (fetched.kind = "matrix" /\ Stage(pc) > 3) =>
         \/ plot # NoPlot
         \/ (pc = "exit" /\ exitCode = 1 /\ Head(LastLine(stderr)) = "msg")
    /\ plot # NoPlot =>
         /\ Len(plot.lines) = Len(metrics)
         /\ \A s \in 1..Len(plot.lines) :
              /\ plot.lines[s].color \in 0..7
              /\ DOMAIN plot.lines[s].xys = 1..Len(metrics[s].values)
         /\ \A s \in DOMAIN plot.legend : HasBracePair(metrics[s].metric)

\* a plot of more series than the palette has colors, some without braces
C28_Witness ==
    /\ plot # NoPlot
    /\ Len(metrics) > 8
    /\ \E s \in 1..Len(metrics) : ~HasBracePair(metrics[s].metric)
    /\ \E s \in 1..Len(metrics) : s \in DOMAIN plot.legend
    /\ pc = "exit"
    /\ exitCode = 0

\* the whole milliseconds of the magnitude of a duration
Millis(d) == LET n == Len(d.ns) IN IF n > 6 THEN DigitsToInt(SubSeq(d.ns, 1, n - 6)) ELSE 0

\* the samples are in increasing time order, a multiple of k milliseconds apart
OnStep(vs, k) ==
    /\ k > 0
    /\ \A i \in 1..(Len(vs) - 1) :
         vs[i + 1].t > vs[i].t /\ (vs[i + 1].t - vs[i].t) % k = 0

\* C29 as stated: in the line of a series whose samples lie on the step of
\* the range query (the duration divided by 100), samples with distinct
\* timestamps have distinct X coordinates.
C29_AsStated ==
    plot # NoPlot =>
        \A q \in CallsOf("QueryRange"), s \in 1..Len(metrics) :
            (~calls[q].arg.Step.neg /\ OnStep(metrics[s].values, Millis(calls[q].arg.Step))) =>
                \A i, j \in 1..Len(metrics[s].values) :
                    metrics[s].values[i].t # metrics[s].values[j].t =>
                        plot.lines[s].xys[i].X # plot.lines[s].xys[j].X

(***************************************************************************)
(* The value of a flag after a rejected Set (specification SpecDuration).  *)
(***************************************************************************)

\* C30 as stated: when durationValue.Set returns an error the flag holds the
\* value it held before the call.
C30_AsStated == (dDone /\ dRes.err) => dRes.d = dOld

=============================================================================
